---- MODULE Spec2Model ----
(***************************************************************************)
(* Access-control boundary of cli-local-share: the attempt tracker         *)
(* (src/state.py, src/security.py), the request gate of SecureAuthHandler  *)
(* (src/handler.py), check_auth, check_csrf and the share-link manager     *)
(* (src/share_manager.py).                                                 *)
(*                                                                         *)
(* The HTTP server is a socketserver.TCPServer (src/ui.py:157-163): its    *)
(* one serving thread runs a handler to completion before it accepts the   *)
(* next connection, so at most one request is in flight.  A handler is     *)
(* modelled as a sequence of steps, one per critical section it enters;    *)
(* the clock may advance between two steps.                                *)
(***************************************************************************)
EXTENDS Integers, Sequences, FiniteSets, TLC

VARIABLES
    now,              \* datetime.now(), in seconds
    BLOCKED_IPS,      \* state.BLOCKED_IPS: dict ip -> blocked-until time
    FAILED_ATTEMPTS,  \* state.FAILED_ATTEMPTS: defaultdict(int) ip -> count
    WHITELIST_IPS,    \* state.WHITELIST_IPS: set of ips
    auth_password,    \* SecureAuthHandler.auth_password ("" / None is <<>>)
    auth_token,       \* SecureAuthHandler.auth_token    ("" / None is <<>>)
    req,              \* the request the serving thread is handling
    streak,           \* history: consecutive Failed gate requests per ip
    links,            \* table share_links: token -> row
    served,           \* history: files served per token by the public resolver
    backlog,          \* number of connections waiting in the listen queue
    disk,             \* the paths that exist in the directory uploads go to
    holder,           \* which thread holds STATE_LOCK, which the manager's lock
    thr,              \* per thread: the steps of its call and where it is
    call,             \* arguments of the pure function under check
    ret               \* its result

vars == <<now, BLOCKED_IPS, FAILED_ATTEMPTS, WHITELIST_IPS, auth_password,
          auth_token, req, streak, links, served, backlog, disk, holder, thr,
          call, ret>>

trackerVars == <<BLOCKED_IPS, FAILED_ATTEMPTS>>
configVars == <<WHITELIST_IPS, auth_password, auth_token>>
shareVars == <<links, served, backlog>>
pureVars == <<call, ret>>
lockVars == <<holder, thr>>

(***************************************************************************)
(* the two locks and the threads that take them                            *)
(***************************************************************************)
\* state.STATE_LOCK and ShareLinkManager.lock, both threading.Lock()
Locks == {"STATE_LOCK", "manager.lock"}

\* the thread of serve_forever and two SFTP connection threads
Threads == {"http", "sftp1", "sftp2"}

Free == "free"

NoHolder == [l \in Locks |-> Free]

\* no thread is inside a call
NoCalls == [t \in Threads |-> [prog |-> <<>>, i |-> 1]]

(***************************************************************************)
(* Constants of the program and bounds of the model                        *)
(***************************************************************************)
MAX_FAILED_ATTEMPTS == 5
BLOCK_DURATION_SECONDS == 300

\* the clock stops advancing past MaxNow
MaxNow == 450

IPs == {"10.0.0.1", "10.0.0.2"}

\* the clock advances by half a block window or by a whole one, so that a
\* request can arrive inside the window, exactly at its end, and after it
TickSteps == {BLOCK_DURATION_SECONDS \div 2, BLOCK_DURATION_SECONDS}

(***************************************************************************)
(* Strings are sequences of characters                                     *)
(***************************************************************************)
Empty == <<>>

\* str.find(c) >= 0
Contains(s, c) == \E i \in 1..Len(s) : s[i] = c

\* index of the first occurrence of c in s (s contains c)
FirstIndex(s, c) == CHOOSE i \in 1..Len(s) :
                        s[i] = c /\ \A j \in 1..(i - 1) : s[j] # c

\* s.split(c, 1)[1], for s containing c
AfterFirst(s, c) == SubSeq(s, FirstIndex(s, c) + 1, Len(s))

\* needle in haystack (Python's substring test on str)
IsSubstring(needle, hay) ==
    \E i \in 0..(Len(hay) - Len(needle)) :
        \A j \in 1..Len(needle) : hay[i + j] = needle[j]

\* str.lower() on the scheme words the model sends
Lower(w) == CASE w = "Basic" -> "basic"
              [] w = "BASIC" -> "basic"
              [] w = "Bearer" -> "bearer"
              [] OTHER -> w

(***************************************************************************)
(* The Authorization header.  present: headers.get() is not None.  The     *)
(* value is scheme, then (space) one blank and the base64 data; decodable: *)
(* b64decode(...).decode('utf-8') does not raise, and then yields text.    *)
(***************************************************************************)
NoHeader == [present |-> FALSE, scheme |-> "", space |-> FALSE,
             decodable |-> FALSE, text |-> Empty]

BasicHeader(t) == [present |-> TRUE, scheme |-> "Basic", space |-> TRUE,
                   decodable |-> TRUE, text |-> t]

\* Faulty variant of check_auth: a missing header is answered 0 (Failed)
check_auth_m2(h, password, token) ==
    IF password = Empty /\ token = Empty THEN 1
    ELSE IF ~h.present THEN 0
    ELSE IF ~h.space THEN 0
    ELSE IF Lower(h.scheme) # "basic" THEN 0
    ELSE IF ~h.decodable THEN 0
    ELSE IF ~Contains(h.text, ":") THEN 0
    ELSE LET pw == AfterFirst(h.text, ":") IN
         IF password # Empty /\ pw = password THEN 1
         ELSE IF token # Empty /\ pw = token THEN 1
         ELSE 0

\* Faulty variant of check_auth: a header without ':' is answered 2, not 0
check_auth_m1(h, password, token) ==
    IF password = Empty /\ token = Empty THEN 1
    ELSE IF ~h.present THEN 2
    ELSE IF ~h.space THEN 0
    ELSE IF Lower(h.scheme) # "basic" THEN 0
    ELSE IF ~h.decodable THEN 0
    ELSE IF ~Contains(h.text, ":") THEN 2
    ELSE LET pw == AfterFirst(h.text, ":") IN
         IF password # Empty /\ pw = password THEN 1
         ELSE IF token # Empty /\ pw = token THEN 1
         ELSE 0

\* SecureAuthHandler.check_auth: 0 Failed, 1 Success, 2 NoCredentials
check_auth(h, password, token) ==
    IF password = Empty /\ token = Empty THEN 1
    ELSE IF ~h.present THEN 2
    ELSE IF ~h.space THEN 0                          \* split(' ', 1) raises
    ELSE IF Lower(h.scheme) # "basic" THEN 0
    ELSE IF ~h.decodable THEN 0                      \* b64decode/decode raises
    ELSE IF ~Contains(h.text, ":") THEN 0            \* split(':', 1) raises
    ELSE LET pw == AfterFirst(h.text, ":") IN
         IF password # Empty /\ pw = password THEN 1
         ELSE IF token # Empty /\ pw = token THEN 1
         ELSE 0

(***************************************************************************)
(* Python dicts: functions whose domain is the set of keys                 *)
(***************************************************************************)
EmptyDict == [k \in {} |-> 0]

DictSet(d, k, v) == [x \in (DOMAIN d) \cup {k} |-> IF x = k THEN v ELSE d[x]]

DictDel(d, k) == [x \in (DOMAIN d) \ {k} |-> d[x]]

\* reading a defaultdict(int) without inserting the key
DictGet0(d, k) == IF k \in DOMAIN d THEN d[k] ELSE 0

Attempts(ip) == DictGet0(FAILED_ATTEMPTS, ip)

(***************************************************************************)
(* src/security.py                                                         *)
(***************************************************************************)
\* Faulty variant of is_ip_blocked: an entry never blocks, and stays
is_ip_blocked_m4(ip, B, F, t) == [ret |-> FALSE, B |-> B, F |-> F]

\* Faulty variant of is_ip_blocked: the comparison with the clock is inverted
is_ip_blocked_m2(ip, B, F, t) ==
    IF ip \in DOMAIN B
    THEN IF t > B[ip]
         THEN [ret |-> TRUE, B |-> B, F |-> F]
         ELSE [ret |-> FALSE, B |-> DictDel(B, ip), F |-> DictSet(F, ip, 0)]
    ELSE [ret |-> FALSE, B |-> B, F |-> F]

\* Faulty variant of is_ip_blocked: a request from a blocked ip is counted
is_ip_blocked_m3(ip, B, F, t) ==
    IF ip \in DOMAIN B
    THEN IF t < B[ip]
         THEN [ret |-> TRUE, B |-> B, F |-> DictSet(F, ip, DictGet0(F, ip) + 1)]
         ELSE [ret |-> FALSE, B |-> DictDel(B, ip), F |-> DictSet(F, ip, 0)]
    ELSE [ret |-> FALSE, B |-> B, F |-> F]

\* Faulty variant of is_ip_blocked: the expired entry is deleted but the
\* failure count is left as it was
is_ip_blocked_m1(ip, B, F, t) ==
    IF ip \in DOMAIN B
    THEN IF t < B[ip]
         THEN [ret |-> TRUE, B |-> B, F |-> F]
         ELSE [ret |-> FALSE, B |-> DictDel(B, ip), F |-> F]
    ELSE [ret |-> FALSE, B |-> B, F |-> F]

\* is_ip_blocked(ip) at time t on the dicts B (BLOCKED_IPS) and
\* F (FAILED_ATTEMPTS): the value returned and the dicts it leaves
is_ip_blocked(ip, B, F, t) ==
    IF ip \in DOMAIN B
    THEN IF t < B[ip]
         THEN [ret |-> TRUE, B |-> B, F |-> F]
         ELSE [ret |-> FALSE, B |-> DictDel(B, ip), F |-> DictSet(F, ip, 0)]
    ELSE [ret |-> FALSE, B |-> B, F |-> F]

\* Faulty variant of record_failed_attempt: the block is set at the
\* threshold, and the count goes back to 0 with it
record_failed_attempt_m2(ip, B, F, t) ==
    LET n == DictGet0(F, ip) + 1
    IN IF n >= MAX_FAILED_ATTEMPTS
       THEN [B |-> DictSet(B, ip, t + BLOCK_DURATION_SECONDS),
             F |-> DictSet(F, ip, 0), should_log_block |-> TRUE]
       ELSE [B |-> B, F |-> DictSet(F, ip, n), should_log_block |-> FALSE]

\* Faulty variant of record_failed_attempt: > instead of >=
record_failed_attempt_m1(ip, B, F, t) ==
    LET n == DictGet0(F, ip) + 1
        F1 == DictSet(F, ip, n)
    IN IF n > MAX_FAILED_ATTEMPTS
       THEN [B |-> DictSet(B, ip, t + BLOCK_DURATION_SECONDS), F |-> F1,
             should_log_block |-> TRUE]
       ELSE [B |-> B, F |-> F1, should_log_block |-> FALSE]

\* record_failed_attempt(ip) at time t: the dicts it leaves, and whether it
\* then logs the block
record_failed_attempt(ip, B, F, t) ==
    LET n == DictGet0(F, ip) + 1
        F1 == DictSet(F, ip, n)
    IN IF n >= MAX_FAILED_ATTEMPTS
       THEN [B |-> DictSet(B, ip, t + BLOCK_DURATION_SECONDS), F |-> F1,
             should_log_block |-> TRUE]
       ELSE [B |-> B, F |-> F1, should_log_block |-> FALSE]

\* is_ip_whitelisted: the empty whitelist allows everyone
is_ip_whitelisted(ip, W) == IF W = {} THEN TRUE ELSE ip \in W \/ ip = "127.0.0.1"

\* Faulty variant of the success branch: the count is reset, the block kept
reset_on_success_m1(ip, B, F) ==
    [B |-> B, F |-> IF ip \in DOMAIN F THEN DictSet(F, ip, 0) ELSE F]

\* do_GET / do_POST, auth_status == 1: "Success: Unblock if needed"
reset_on_success(ip, B, F) ==
    [B |-> IF ip \in DOMAIN B THEN DictDel(B, ip) ELSE B,
     F |-> IF ip \in DOMAIN F THEN DictSet(F, ip, 0) ELSE F]

(***************************************************************************)
(* Origin guard.  A header other than Authorization is present or not, and *)
(* has a value; Python's "if not origin" is true of None and of "".        *)
(***************************************************************************)
Absent == [present |-> FALSE, value |-> Empty]

Hdr(v) == [present |-> TRUE, value |-> v]

Truthy(h) == h.present /\ h.value # Empty

\* Faulty variant of check_csrf: Origin is not compared with Host
check_csrf_m2(command, origin, referer, host) ==
    IF command \notin {"POST", "PUT", "DELETE"} THEN TRUE
    ELSE IF ~Truthy(origin) /\ ~Truthy(referer) THEN TRUE
    ELSE IF ~Truthy(host) THEN FALSE
    ELSE IF Truthy(referer) /\ ~IsSubstring(host.value, referer.value) THEN FALSE
    ELSE TRUE

\* Faulty variant of check_csrf: a missing Host header lets the request pass
check_csrf_m1(command, origin, referer, host) ==
    IF command \notin {"POST", "PUT", "DELETE"} THEN TRUE
    ELSE IF ~Truthy(origin) /\ ~Truthy(referer) THEN TRUE
    ELSE IF ~Truthy(host) THEN TRUE
    ELSE IF Truthy(origin) /\ ~IsSubstring(host.value, origin.value) THEN FALSE
    ELSE IF Truthy(referer) /\ ~IsSubstring(host.value, referer.value) THEN FALSE
    ELSE TRUE

\* SecureAuthHandler.check_csrf
check_csrf(command, origin, referer, host) ==
    IF command \notin {"POST", "PUT", "DELETE"} THEN TRUE
    ELSE IF ~Truthy(origin) /\ ~Truthy(referer) THEN TRUE
    ELSE IF ~Truthy(host) THEN FALSE
    ELSE IF Truthy(origin) /\ ~IsSubstring(host.value, origin.value) THEN FALSE
    ELSE IF Truthy(referer) /\ ~IsSubstring(host.value, referer.value) THEN FALSE
    ELSE TRUE

(***************************************************************************)
(* Requests of the gate specification                                      *)
(***************************************************************************)
PASSWORD == <<"p">>
TOKEN == <<"t">>

\* the Authorization headers clients send to the gate: none, the password,
\* a wrong secret
GateHeaders == {NoHeader,
                BasicHeader(<<"u", ":", "p">>),
                BasicHeader(<<"u", ":", "x">>)}

\* (password, token) the server is started with
GateSecrets == {<<PASSWORD, Empty>>, <<Empty, Empty>>}

GateWhitelists == {{}, {"10.0.0.1"}}

\* <<Origin, Referer, Host>> of a POST
GateOrigins == {<<Absent, Absent, Hdr(<<"h">>)>>,
                <<Hdr(<<"e">>), Absent, Hdr(<<"h">>)>>}

\* paths of the share endpoints of do_POST
SharePaths == {"/api/share/create", "/api/share/revoke"}

\* paths of a GET other than a share-link path
GetPaths == {"/file", "/api/share/list", "/logout"}

IdleReq == [pc |-> "idle", verb |-> "GET", ip |-> "10.0.0.1", hdr |-> NoHeader,
            path |-> "/file", origin |-> Absent, referer |-> Absent,
            host |-> Absent, resp |-> "none", logged |-> <<>>,
            cleared |-> FALSE, prev |-> 0]

\* cleared and prev are history: whether this request's is_ip_blocked call
\* found an expired entry, and the failure count when the request arrived
NewReq(verb, ip, hdr, path, o) ==
    [pc |-> "gate", verb |-> verb, ip |-> ip, hdr |-> hdr, path |-> path,
     origin |-> o[1], referer |-> o[2], host |-> o[3], resp |-> "none",
     logged |-> <<>>, cleared |-> FALSE, prev |-> Attempts(ip)]

\* one call of log_access(ip, path, status)
LogEntry(ip, path, status) == [ip |-> ip, path |-> path, status |-> status]

AuthStatus == check_auth(req.hdr, auth_password, auth_token)

\* the request goes through the auth gate of do_GET or do_POST
MainGate == \/ req.verb = "POST"
            \/ req.verb = "GET" /\ req.path \notin {"/api/share/list", "/logout"}

Bump(n) == IF n > MAX_FAILED_ATTEMPTS THEN n ELSE n + 1

(***************************************************************************)
(* TCPServer: the serving thread takes the next request only when the      *)
(* handler of the previous one has returned                                *)
(***************************************************************************)
Accept ==
    /\ req.pc \in {"idle", "done"}
    /\ \E ip \in IPs, hdr \in GateHeaders :
          \/ \E path \in GetPaths : req' = NewReq("GET", ip, hdr, path, <<Absent, Absent, Hdr(<<"h">>)>>)
          \/ \E o \in GateOrigins : req' = NewReq("POST", ip, hdr, "/file", o)
          \/ req' = NewReq("HEAD", ip, hdr, "/file", <<Absent, Absent, Hdr(<<"h">>)>>)
    /\ UNCHANGED <<now, trackerVars, configVars, streak, shareVars, pureVars, disk, lockVars>>

\* time passes
Tick ==
    /\ \E d \in TickSteps : now + d <= MaxNow /\ now' = now + d
    /\ UNCHANGED <<trackerVars, configVars, req, streak, shareVars, pureVars, disk, lockVars>>

(***************************************************************************)
(* do_GET / do_POST, "1. Check Auth First (Smart Rate Limit)": check_auth, *)
(* then the success reset or is_ip_blocked, each one critical section      *)
(***************************************************************************)
GateAuth ==
    /\ req.pc = "gate"
    /\ MainGate
    /\ LET st == AuthStatus
           ip == req.ip
       IN IF st = 1
          THEN LET r == reset_on_success(ip, BLOCKED_IPS, FAILED_ATTEMPTS) IN
               /\ BLOCKED_IPS' = r.B
               /\ FAILED_ATTEMPTS' = r.F
               /\ streak' = [streak EXCEPT ![ip] = 0]
               /\ req' = [req EXCEPT !.pc = "checks"]
          ELSE LET r == is_ip_blocked(ip, BLOCKED_IPS, FAILED_ATTEMPTS, now) IN
               /\ BLOCKED_IPS' = r.B
               /\ FAILED_ATTEMPTS' = r.F
               /\ streak' = IF st = 0 THEN [streak EXCEPT ![ip] = Bump(@)]
                            ELSE streak
               /\ req' = IF r.ret
                         THEN [req EXCEPT !.pc = "done", !.resp = "blocked",
                                 !.logged = IF req.verb = "GET"
                                            THEN <<LogEntry(ip, req.path, "BLOCKED")>>
                                            ELSE <<>>]
                         ELSE IF st = 0
                         THEN [req EXCEPT !.pc = "record",
                                 !.cleared = (ip \in DOMAIN BLOCKED_IPS)]
                         ELSE [req EXCEPT !.pc = "done", !.resp = "challenge",
                                 !.cleared = (ip \in DOMAIN BLOCKED_IPS)]
    /\ UNCHANGED <<now, configVars, shareVars, pureVars, disk, lockVars>>

\* auth_status == 0 and the ip is not blocked: do_AUTHHEAD, then
\* record_failed_attempt and log_access
GateRecord ==
    /\ req.pc = "record"
    /\ LET ip == req.ip
           r == record_failed_attempt(ip, BLOCKED_IPS, FAILED_ATTEMPTS, now)
           blk == IF r.should_log_block
                  THEN <<LogEntry(ip, "-", "BLOCKED (300s)")>> ELSE <<>>
           p == IF req.verb = "GET" THEN req.path ELSE "POST"
       IN /\ BLOCKED_IPS' = r.B
          /\ FAILED_ATTEMPTS' = r.F
          /\ req' = [req EXCEPT !.pc = "done", !.resp = "auth_failed",
                       !.logged = blk \o <<LogEntry(ip, p, "AUTH FAILED")>>]
    /\ UNCHANGED <<now, configVars, streak, shareVars, pureVars, disk, lockVars>>

\* after a successful auth: do_POST's "2. Other Security Checks" (origin
\* guard, whitelist) and dispatch, a share endpoint being one more step;
\* do_GET's "2. Whitelist Check" and serving
GateChecks ==
    /\ req.pc = "checks"
    /\ LET ip == req.ip IN
       req' = IF req.verb = "POST"
              THEN IF ~check_csrf(req.verb, req.origin, req.referer, req.host)
                   THEN [req EXCEPT !.pc = "done", !.resp = "csrf_rejected",
                           !.logged = <<LogEntry(ip, "CSRF Reject", "BLOCKED")>>]
                   ELSE IF ~is_ip_whitelisted(ip, WHITELIST_IPS)
                   THEN [req EXCEPT !.pc = "done", !.resp = "not_whitelisted"]
                   ELSE IF req.path \in SharePaths
                   THEN [req EXCEPT !.pc = "api"]
                   ELSE [req EXCEPT !.pc = "done", !.resp = "dispatched"]
              ELSE IF ~is_ip_whitelisted(ip, WHITELIST_IPS)
                   THEN [req EXCEPT !.pc = "done", !.resp = "not_whitelisted",
                           !.logged = <<LogEntry(ip, req.path, "NOT WHITELISTED")>>]
                   ELSE [req EXCEPT !.pc = "done", !.resp = "served",
                           !.logged = <<LogEntry(ip, req.path, "DOWNLOAD")>>]
    /\ UNCHANGED <<now, trackerVars, configVars, streak, shareVars, pureVars, disk, lockVars>>

\* do_HEAD: a blocked or non-whitelisted ip gets no response at all; the
\* result of check_auth is tested with "not"
DoHead ==
    /\ req.pc = "gate"
    /\ req.verb = "HEAD"
    /\ LET ip == req.ip
           r == is_ip_blocked(ip, BLOCKED_IPS, FAILED_ATTEMPTS, now)
       IN /\ BLOCKED_IPS' = r.B
          /\ FAILED_ATTEMPTS' = r.F
          /\ req' = IF r.ret \/ ~is_ip_whitelisted(ip, WHITELIST_IPS)
                    THEN [req EXCEPT !.pc = "done", !.resp = "none"]
                    ELSE IF AuthStatus = 0
                    THEN [req EXCEPT !.pc = "done", !.resp = "challenge",
                            !.cleared = (ip \in DOMAIN BLOCKED_IPS)]
                    ELSE [req EXCEPT !.pc = "done", !.resp = "served",
                            !.cleared = (ip \in DOMAIN BLOCKED_IPS)]
    /\ UNCHANGED <<now, configVars, streak, shareVars, pureVars, disk, lockVars>>

\* do_GET, "/api/share/list": its own check_auth, no attempt tracking
ApiShareList ==
    /\ req.pc = "gate"
    /\ req.verb = "GET"
    /\ req.path = "/api/share/list"
    /\ req' = IF AuthStatus # 1
              THEN [req EXCEPT !.pc = "done", !.resp = "api_unauthorized",
                      !.logged = <<LogEntry(req.ip, req.path, "AUTH FAILED")>>]
              ELSE [req EXCEPT !.pc = "done", !.resp = "api_list"]
    /\ UNCHANGED <<now, trackerVars, configVars, streak, shareVars, pureVars, disk, lockVars>>

\* do_GET, "/logout": answered before any check
Logout ==
    /\ req.pc = "gate"
    /\ req.verb = "GET"
    /\ req.path = "/logout"
    /\ req' = [req EXCEPT !.pc = "done", !.resp = "logout",
                 !.logged = <<LogEntry(req.ip, "Action", "LOGOUT")>>]
    /\ UNCHANGED <<now, trackerVars, configVars, streak, shareVars, pureVars, disk, lockVars>>

(***************************************************************************)
(* The gate specification: run_server_with_ui clears the tracker and       *)
(* starts the server                                                       *)
(***************************************************************************)
Init ==
    /\ now = 0
    /\ BLOCKED_IPS = EmptyDict
    /\ FAILED_ATTEMPTS = EmptyDict
    /\ WHITELIST_IPS \in GateWhitelists
    /\ \E s \in GateSecrets : auth_password = s[1] /\ auth_token = s[2]
    /\ req = IdleReq
    /\ streak = [ip \in IPs |-> 0]
    /\ links = EmptyDict
    /\ served = EmptyDict
    /\ backlog = 0
    /\ call = 0
    /\ ret = 0
    /\ disk = {}
    /\ holder = NoHolder
    /\ thr = NoCalls

Next ==
    \/ Accept
    \/ Tick
    \/ GateAuth
    \/ GateRecord
    \/ GateChecks
    \/ DoHead
    \/ ApiShareList
    \/ Logout

Spec == Init /\ [][Next]_vars

(***************************************************************************)
(* Properties of the attempt tracker and the gate                          *)
(***************************************************************************)
SecretConfigured == auth_password # Empty \/ auth_token # Empty

\* the ip has a block entry whose time has not come / has come
CurBlocked(ip) == ip \in DOMAIN BLOCKED_IPS /\ now < BLOCKED_IPS[ip]
Expired(ip) == ip \in DOMAIN BLOCKED_IPS /\ now >= BLOCKED_IPS[ip]

\* the step GateAuth of a request through the gate of do_GET / do_POST
GateStep == req.pc = "gate" /\ MainGate /\ req' # req

\* the step GateRecord
RecordStep == req.pc = "record" /\ req' # req

\* a step in which is_ip_blocked is called
IsBlockedStep == /\ req.pc = "gate"
                 /\ req' # req
                 /\ \/ MainGate /\ AuthStatus # 1
                    \/ req.verb = "HEAD"

\* the tracker's record of ip in the dicts B and F
Rec(B, F, ip) == <<ip \in DOMAIN B, DictGet0(B, ip), ip \in DOMAIN F, DictGet0(F, ip)>>

OthersUnchanged(ip) ==
    \A j \in IPs \ {ip} :
        Rec(BLOCKED_IPS', FAILED_ATTEMPTS', j) = Rec(BLOCKED_IPS, FAILED_ATTEMPTS, j)

\* C2 as stated: once an ip is blocked after MAX_FAILED_ATTEMPTS consecutive
\* Failed requests, every GET or POST of it through the gate, whatever its
\* credentials, is answered with the blocked response while the window lasts
C2_BlockedWhateverCredentials ==
    [][GateStep /\ streak[req.ip] >= MAX_FAILED_ATTEMPTS /\ CurBlocked(req.ip)
         => req'.resp = "blocked"]_vars

\* C2 as amended: the fifth consecutive Failed request creates a block entry
\* for now + BLOCK_DURATION_SECONDS; while it has not expired every gate
\* request without correct credentials (Failed or NoCredentials) is answered
\* blocked and changes nothing; a request with correct credentials passes the
\* gate and deletes the block entry
C2_BlockedUnlessCredentials ==
    [][/\ (RecordStep /\ streak[req.ip] = MAX_FAILED_ATTEMPTS)
            => /\ req.ip \in DOMAIN BLOCKED_IPS'
               /\ BLOCKED_IPS'[req.ip] = now + BLOCK_DURATION_SECONDS
       /\ (GateStep /\ CurBlocked(req.ip) /\ AuthStatus # 1)
            => /\ req'.resp = "blocked"
               /\ req'.pc = "done"
               /\ UNCHANGED trackerVars
       /\ (GateStep /\ CurBlocked(req.ip) /\ AuthStatus = 1)
            => /\ req'.pc = "checks"
               /\ req.ip \notin DOMAIN BLOCKED_IPS']_vars

\* a request without credentials was answered blocked, part of the window
\* having elapsed
C2_Witness ==
    /\ req.pc = "done" /\ req.verb = "POST" /\ req.resp = "blocked"
    /\ ~req.hdr.present
    /\ streak[req.ip] >= MAX_FAILED_ATTEMPTS
    /\ CurBlocked(req.ip)
    /\ BLOCKED_IPS[req.ip] < now + BLOCK_DURATION_SECONDS

\* C3 as stated: with a secret configured a GET or POST without Authorization
\* header leaves the whole tracker as it was, in every tracker state
C3_NoCredentialsTouchesNothing ==
    [][GateStep /\ SecretConfigured /\ ~req.hdr.present
         => AuthStatus = 2 /\ UNCHANGED trackerVars]_vars

\* C3 as amended: such a request yields NoCredentials, is never counted and
\* leaves every other ip's record alone; the ip's own record is unchanged
\* unless its block entry has expired, and then is_ip_blocked deletes the
\* entry and sets the count to 0
C3_NoCredentialsNeverCounted ==
    [][GateStep /\ SecretConfigured /\ ~req.hdr.present
         => /\ AuthStatus = 2
            /\ req'.pc = "done"
            /\ OthersUnchanged(req.ip)
            /\ IF Expired(req.ip)
               THEN /\ req.ip \notin DOMAIN BLOCKED_IPS'
                    /\ DictGet0(FAILED_ATTEMPTS', req.ip) = 0
               ELSE UNCHANGED trackerVars]_vars

\* a request without credentials met an expired block of an ip with
\* MAX_FAILED_ATTEMPTS failures and was challenged
C3_Witness ==
    /\ req.pc = "done" /\ req.verb = "GET" /\ MainGate /\ SecretConfigured
    /\ ~req.hdr.present
    /\ req.resp = "challenge"
    /\ req.cleared
    /\ req.prev = MAX_FAILED_ATTEMPTS
    /\ Attempts(req.ip) = 0

C5_SuccessClears ==
    /\ [][GateStep /\ AuthStatus = 1
            => /\ DictGet0(FAILED_ATTEMPTS', req.ip) = 0
               /\ req.ip \notin DOMAIN BLOCKED_IPS'
               /\ OthersUnchanged(req.ip)]_vars
    /\ [](\A ip \in IPs : ip \in DOMAIN BLOCKED_IPS
                            => streak[ip] >= MAX_FAILED_ATTEMPTS)

\* a Success arrived after MAX_FAILED_ATTEMPTS - 1 failures
C5_Witness ==
    /\ req.pc = "checks" /\ SecretConfigured
    /\ req.prev = MAX_FAILED_ATTEMPTS - 1
    /\ Attempts(req.ip) = 0
    /\ streak[req.ip] = 0

\* C6: a GET or POST with wrong credentials from an ip whose block has not
\* expired is answered blocked and is not counted: the tracker is unchanged
C6_BlockedNotCounted ==
    [][GateStep /\ AuthStatus = 0 /\ CurBlocked(req.ip)
         => /\ req'.resp = "blocked"
            /\ req'.pc = "done"
            /\ UNCHANGED trackerVars]_vars

\* a wrong password was answered blocked, the count still at the threshold
C6_Witness ==
    /\ req.pc = "done" /\ req.resp = "blocked"
    /\ AuthStatus = 0
    /\ CurBlocked(req.ip)
    /\ Attempts(req.ip) = MAX_FAILED_ATTEMPTS
    /\ streak[req.ip] > MAX_FAILED_ATTEMPTS

\* C7: is_ip_blocked answers true iff the ip has a block entry and
\* now < blockedUntil, and then changes nothing; with an entry and
\* now >= blockedUntil it answers false, deletes the entry and sets the count
\* to 0, so that the Failed request that follows is counted as the first
C7_IsIpBlocked ==
    [][/\ IsBlockedStep
            => /\ MainGate => (req'.resp = "blocked" <=> CurBlocked(req.ip))
               /\ CurBlocked(req.ip) => UNCHANGED trackerVars
               /\ Expired(req.ip)
                     => /\ req.ip \notin DOMAIN BLOCKED_IPS'
                        /\ req.ip \in DOMAIN FAILED_ATTEMPTS'
                        /\ FAILED_ATTEMPTS'[req.ip] = 0
               /\ req.ip \notin DOMAIN BLOCKED_IPS => UNCHANGED trackerVars
               /\ OthersUnchanged(req.ip)
       /\ (RecordStep /\ req.cleared)
            => DictGet0(FAILED_ATTEMPTS', req.ip) = 1]_vars

\* a wrong password arrived exactly when the block ended and was counted
\* as the first failure
C7_Witness ==
    /\ req.pc = "done" /\ req.resp = "auth_failed"
    /\ req.cleared
    /\ req.prev = MAX_FAILED_ATTEMPTS
    /\ Attempts(req.ip) = 1
    /\ req.ip \notin DOMAIN BLOCKED_IPS

\* C9: with a secret configured, no request (GET, POST, HEAD) whose auth
\* outcome is NoCredentials or Failed is passed on to file serving, directory
\* listing, the share-link list or a mutation
C9_GateNeverPassesUnauthenticated ==
    (req.pc = "done" /\ SecretConfigured /\ AuthStatus # 1)
        => req.resp \notin {"served", "dispatched", "api_list"}

(***************************************************************************)
(* check_auth on every header and every configuration                      *)
(***************************************************************************)
\* longest decoded credential text, longest Origin / Referer value
MaxTextLen == 3
MaxHdrLen == 3

Strings(A, n) == UNION {[1..k -> A] : k \in 0..n}

Schemes == {"Basic", "basic", "BASIC", "Bearer", ""}

\* every Authorization header: absent; a scheme without blank; data that
\* does not decode; data that decodes to a text
AuthHeaders ==
    {NoHeader}
    \cup {[present |-> TRUE, scheme |-> w, space |-> FALSE,
           decodable |-> FALSE, text |-> Empty] : w \in Schemes}
    \cup {[present |-> TRUE, scheme |-> w, space |-> TRUE,
           decodable |-> FALSE, text |-> Empty] : w \in Schemes}
    \cup {[present |-> TRUE, scheme |-> w, space |-> TRUE,
           decodable |-> TRUE, text |-> t] :
             w \in Schemes, t \in Strings({":", "p", "t"}, MaxTextLen)}

\* configured password or token; <<>> is None or ""
Secrets == {Empty, <<"p">>, <<"t">>, <<":">>, <<"p", ":">>}

InitAuth ==
    /\ now = 0
    /\ BLOCKED_IPS = EmptyDict
    /\ FAILED_ATTEMPTS = EmptyDict
    /\ WHITELIST_IPS = {}
    /\ auth_password = Empty
    /\ auth_token = Empty
    /\ req = IdleReq
    /\ streak = [ip \in IPs |-> 0]
    /\ links = EmptyDict
    /\ served = EmptyDict
    /\ backlog = 0
    /\ call \in [h : AuthHeaders, password : Secrets, token : Secrets]
    /\ ret = -1
    /\ disk = {}
    /\ holder = NoHolder
    /\ thr = NoCalls

CallCheckAuth ==
    /\ ret = -1
    /\ ret' = check_auth(call.h, call.password, call.token)
    /\ UNCHANGED <<now, trackerVars, configVars, req, streak, shareVars, call, disk, lockVars>>

SpecAuth == InitAuth /\ [][CallCheckAuth]_vars

\* the header is Basic auth (any case) whose data decodes to
\* "<user>:<secret>", the user without ':'
CarriesSecret(h, secret) ==
    /\ h.present /\ h.space /\ h.decodable
    /\ h.scheme \in {"Basic", "basic", "BASIC"}
    /\ \E k \in 0..Len(h.text) :
          /\ ~Contains(SubSeq(h.text, 1, k), ":")
          /\ h.text = SubSeq(h.text, 1, k) \o <<":">> \o secret

\* C8: check_auth answers Success when neither password nor token is
\* configured; otherwise NoCredentials iff the header is absent, Success iff
\* the header is well-formed Basic auth whose password part is the configured
\* password or the configured token, and Failed for every other header
C8_CheckAuthTriState ==
    ret # -1 =>
        ret = IF call.password = Empty /\ call.token = Empty THEN 1
              ELSE IF ~call.h.present THEN 2
              ELSE IF \E x \in {call.password, call.token} \ {Empty} :
                         CarriesSecret(call.h, x) THEN 1
              ELSE 0

\* the token, which contains ':', was accepted from a header whose scheme is
\* written in capitals, while a password is configured too
C8_Witness ==
    /\ ret = 1
    /\ call.password = <<"t">>
    /\ call.token = <<"p", ":">>
    /\ call.h.scheme = "BASIC"
    /\ call.h.text = <<":", "p", ":">>

(***************************************************************************)
(* check_csrf on every verb and every Origin, Referer and Host             *)
(***************************************************************************)
Commands == {"GET", "HEAD", "POST", "PUT", "DELETE"}

HeaderValues(n) == {Absent} \cup {Hdr(v) : v \in Strings({"h", "e"}, n)}

InitCsrf ==
    /\ now = 0
    /\ BLOCKED_IPS = EmptyDict
    /\ FAILED_ATTEMPTS = EmptyDict
    /\ WHITELIST_IPS = {}
    /\ auth_password = Empty
    /\ auth_token = Empty
    /\ req = IdleReq
    /\ streak = [ip \in IPs |-> 0]
    /\ links = EmptyDict
    /\ served = EmptyDict
    /\ backlog = 0
    /\ call \in [command : Commands, origin : HeaderValues(MaxHdrLen),
                 referer : HeaderValues(MaxHdrLen),
                 host : HeaderValues(MaxHdrLen - 1)]
    /\ ret = "unset"
    /\ disk = {}
    /\ holder = NoHolder
    /\ thr = NoCalls

CallCheckCsrf ==
    /\ ret = "unset"
    /\ ret' = IF check_csrf(call.command, call.origin, call.referer, call.host)
              THEN "pass" ELSE "reject"
    /\ UNCHANGED <<now, trackerVars, configVars, req, streak, shareVars, call, disk, lockVars>>

SpecCsrf == InitCsrf /\ [][CallCheckCsrf]_vars

\* C10: check_csrf passes iff the verb is not POST/PUT/DELETE, or neither
\* Origin nor Referer is present, or Host is present and each of Origin and
\* Referer that is present contains Host as a substring.  A header is present
\* when it has a non-empty value, which is what the code tests.
C10_CheckCsrf ==
    ret # "unset" =>
        (ret = "pass") <=>
            \/ call.command \notin {"POST", "PUT", "DELETE"}
            \/ ~Truthy(call.origin) /\ ~Truthy(call.referer)
            \/ /\ Truthy(call.host)
               /\ Truthy(call.origin) => IsSubstring(call.host.value, call.origin.value)
               /\ Truthy(call.referer) => IsSubstring(call.host.value, call.referer.value)

\* a write with a foreign Origin was rejected although its Referer contains
\* the Host
C10_Witness ==
    /\ ret = "reject"
    /\ call.command = "DELETE"
    /\ call.host = Hdr(<<"h">>)
    /\ call.origin = Hdr(<<"e", "e">>)
    /\ call.referer = Hdr(<<"e", "h", "e">>)

(***************************************************************************)
(* src/share_manager.py: the table share_links as a dict token -> row      *)
(***************************************************************************)
HourSeconds == 3600

\* downloads of one link the model follows, waiting connections it holds,
\* and the time at which its clock stops
MaxCount == 2
MaxBacklog == 1
MaxShareHours == 1

Tokens == {"tokA", "tokB"}

\* a pin argument: None, or a string
NoPin == "None"
PinGiven(pin) == pin # NoPin /\ pin # ""

\* hashlib.sha256(str(pin).encode()).hexdigest(); "" is no hash (NULL)
Sha256(pin) == "sha256:" \o pin

\* Faulty variant of validate_link: an expired link is answered with a result
\* of its own that names the file
validate_link_m3(T, token, pin, t) ==
    IF token \notin DOMAIN T \/ T[token].revoked THEN [kind |-> "inactive"]
    ELSE LET row == T[token] IN
         IF t > row.expires_at
         THEN [kind |-> "inactive", file_name |-> row.file_name]
         ELSE IF row.max_downloads > 0 /\ row.download_count >= row.max_downloads
         THEN [kind |-> "inactive"]
         ELSE IF row.pin_hash # "" /\ ~PinGiven(pin)
         THEN [kind |-> "requires_pin", file_name |-> row.file_name]
         ELSE IF row.pin_hash # "" /\ Sha256(pin) # row.pin_hash
         THEN [kind |-> "pin_invalid"]
         ELSE [kind |-> "active", file_path |-> row.file_path,
               file_name |-> row.file_name,
               download_count |-> row.download_count,
               max_downloads |-> row.max_downloads]

\* Faulty variant of validate_link: the download limit is tested with >
validate_link_m1(T, token, pin, t) ==
    IF token \notin DOMAIN T \/ T[token].revoked THEN [kind |-> "inactive"]
    ELSE LET row == T[token] IN
         IF t > row.expires_at THEN [kind |-> "inactive"]
         ELSE IF row.max_downloads > 0 /\ row.download_count > row.max_downloads
         THEN [kind |-> "inactive"]
         ELSE IF row.pin_hash # "" /\ ~PinGiven(pin)
         THEN [kind |-> "requires_pin", file_name |-> row.file_name]
         ELSE IF row.pin_hash # "" /\ Sha256(pin) # row.pin_hash
         THEN [kind |-> "pin_invalid"]
         ELSE [kind |-> "active", file_path |-> row.file_path,
               file_name |-> row.file_name,
               download_count |-> row.download_count,
               max_downloads |-> row.max_downloads]

\* Faulty variant of validate_link: a supplied pin is not compared with the
\* stored hash
validate_link_m2(T, token, pin, t) ==
    IF token \notin DOMAIN T \/ T[token].revoked THEN [kind |-> "inactive"]
    ELSE LET row == T[token] IN
         IF t > row.expires_at THEN [kind |-> "inactive"]
         ELSE IF row.max_downloads > 0 /\ row.download_count >= row.max_downloads
         THEN [kind |-> "inactive"]
         ELSE IF row.pin_hash # "" /\ ~PinGiven(pin)
         THEN [kind |-> "requires_pin", file_name |-> row.file_name]
         ELSE [kind |-> "active", file_path |-> row.file_path,
               file_name |-> row.file_name,
               download_count |-> row.download_count,
               max_downloads |-> row.max_downloads]

\* ShareLinkManager.validate_link(token, pin) at time t on the table T:
\* None (inactive), {'requires_pin'}, {'pin_invalid'} or the link's info
validate_link(T, token, pin, t) ==
    IF token \notin DOMAIN T \/ T[token].revoked THEN [kind |-> "inactive"]
    ELSE LET row == T[token] IN
         IF t > row.expires_at THEN [kind |-> "inactive"]
         ELSE IF row.max_downloads > 0 /\ row.download_count >= row.max_downloads
         THEN [kind |-> "inactive"]
         ELSE IF row.pin_hash # "" /\ ~PinGiven(pin)
         THEN [kind |-> "requires_pin", file_name |-> row.file_name]
         ELSE IF row.pin_hash # "" /\ Sha256(pin) # row.pin_hash
         THEN [kind |-> "pin_invalid"]
         ELSE [kind |-> "active", file_path |-> row.file_path,
               file_name |-> row.file_name,
               download_count |-> row.download_count,
               max_downloads |-> row.max_downloads]

\* Faulty variant of validate_link_store: validating a row counts as a
\* download of it
validate_link_store_m1(T, token, pin, t) ==
    IF token \in DOMAIN T
    THEN [T EXCEPT ![token].download_count = @ + 1]
    ELSE T

\* the table validate_link leaves: it runs one SELECT and no UPDATE
validate_link_store(T, token, pin, t) == T

\* Faulty variant of increment_download: the limit is reached without the
\* link being revoked
increment_download_m2(T, token) ==
    IF token \notin DOMAIN T THEN T
    ELSE [T EXCEPT ![token].download_count = @ + 1]

\* Faulty variant of increment_download: the UPDATE does not raise the count
increment_download_m1(T, token) ==
    IF token \notin DOMAIN T THEN T
    ELSE LET row == T[token] IN
         IF row.max_downloads > 0 /\ row.download_count >= row.max_downloads
         THEN [T EXCEPT ![token].revoked = TRUE]
         ELSE T

\* ShareLinkManager.increment_download(token): the table it leaves
increment_download(T, token) ==
    IF token \notin DOMAIN T THEN T
    ELSE LET n == T[token].download_count + 1
             T1 == [T EXCEPT ![token].download_count = n]
         IN IF T1[token].max_downloads > 0 /\ n >= T1[token].max_downloads
            THEN [T1 EXCEPT ![token].revoked = TRUE]
            ELSE T1

\* Faulty variant of generate_share_link: the pin is stored as it came
generate_share_link_m1(file_path, expiry_hours, max_downloads, pin, creator_ip, t) ==
    [file_path |-> file_path,
     file_name |-> file_path[Len(file_path)],
     expires_at |-> t + expiry_hours * HourSeconds,
     max_downloads |-> max_downloads,
     download_count |-> 0,
     pin_hash |-> IF PinGiven(pin) THEN pin ELSE "",
     creator_ip |-> creator_ip,
     revoked |-> FALSE]

\* Faulty variant of generate_share_link: the expiry is taken in minutes
generate_share_link_m2(file_path, expiry_hours, max_downloads, pin, creator_ip, t) ==
    [file_path |-> file_path,
     file_name |-> file_path[Len(file_path)],
     expires_at |-> t + expiry_hours * 60,
     max_downloads |-> max_downloads,
     download_count |-> 0,
     pin_hash |-> IF PinGiven(pin) THEN Sha256(pin) ELSE "",
     creator_ip |-> creator_ip,
     revoked |-> FALSE]

\* ShareLinkManager.generate_share_link: the row inserted at time t
generate_share_link(file_path, expiry_hours, max_downloads, pin, creator_ip, t) ==
    [file_path |-> file_path,
     file_name |-> file_path[Len(file_path)],          \* os.path.basename
     expires_at |-> t + expiry_hours * HourSeconds,
     max_downloads |-> max_downloads,
     download_count |-> 0,
     pin_hash |-> IF PinGiven(pin) THEN Sha256(pin) ELSE "",
     creator_ip |-> creator_ip,
     revoked |-> FALSE]

\* ShareLinkManager.generate_share_link: the dict it returns
generate_share_link_info(token, file_path, expiry_hours, max_downloads, pin, t) ==
    [token |-> token,
     file_name |-> file_path[Len(file_path)],
     expires_at |-> t + expiry_hours * HourSeconds,
     max_downloads |-> max_downloads,
     has_pin |-> pin # NoPin]

\* do_POST, "/api/share/create": the JSON sent back for the dict link_info
create_response(link_info, host) ==
    [success |-> TRUE,
     share_url |-> <<"http://", host, "/s/", link_info.token>>,
     token |-> link_info.token,
     expires_at |-> link_info.expires_at,
     max_downloads |-> link_info.max_downloads,
     has_pin |-> link_info.has_pin]

\* Faulty variant of revoke_link: the flag is flipped, so that a second
\* call takes the revocation back
revoke_link_m2(T, token) ==
    IF token \in DOMAIN T
    THEN [T |-> [T EXCEPT ![token].revoked = ~@], ret |-> TRUE]
    ELSE [T |-> T, ret |-> FALSE]

\* Faulty variant of revoke_link: only a row that was not yet revoked is
\* counted as revoked by the call
revoke_link_m1(T, token) ==
    IF token \in DOMAIN T /\ ~T[token].revoked
    THEN [T |-> [T EXCEPT ![token].revoked = TRUE], ret |-> TRUE]
    ELSE [T |-> T, ret |-> FALSE]

\* ShareLinkManager.revoke_link(token): the table it leaves and its result
revoke_link(T, token) ==
    IF token \in DOMAIN T
    THEN [T |-> [T EXCEPT ![token].revoked = TRUE], ret |-> TRUE]
    ELSE [T |-> T, ret |-> FALSE]

(***************************************************************************)
(* The share-link specification: the public resolver of do_GET ("/s/...")  *)
(* and the create and revoke endpoints of do_POST, on one serving thread   *)
(***************************************************************************)
ReqPins == {NoPin, "1234", "9999"}
MintPins == {NoPin, "", "1234"}
MintExpiryHours == {0, 1}
MintMaxDownloads == {0, 1, 2}
FilePaths == {<<"srv", "a.txt">>}
Creators == {"10.0.0.1"}

ShareIdle == [pc |-> "idle", kind |-> "download", token |-> "tokA",
              pin |-> NoPin, overlap |-> FALSE, resp |-> "none",
              info |-> [kind |-> "none"]]

Busy == req.pc \in {"validate", "consume"}

\* a client connects to send GET /s/<token>[?pin=<pin>] while the server is
\* busy with another request: the connection waits in the listen queue, and
\* the server learns what it asks only when it handles it
Send ==
    /\ Busy
    /\ backlog < MaxBacklog
    /\ backlog' = backlog + 1
    /\ UNCHANGED <<now, trackerVars, configVars, req, streak, links, served, pureVars, disk, lockVars>>

\* the request read from an accepted connection; overlap is history: the
\* connection was waiting while a download of the same token was handled
NewDownload(token, pin, overlap) ==
    [pc |-> "validate", kind |-> "download", token |-> token, pin |-> pin,
     overlap |-> overlap, resp |-> "none", info |-> [kind |-> "none"]]

\* TCPServer takes the next connection when the previous handler has
\* returned: the oldest one waiting, or else one that arrives now
ShareAccept ==
    /\ ~Busy
    /\ \E token \in Tokens, pin \in ReqPins :
          /\ token \in DOMAIN links => links[token].download_count < MaxCount
          /\ \/ /\ backlog > 0
                /\ backlog' = backlog - 1
                /\ req' = NewDownload(token, pin,
                              req.kind = "download" /\ req.token = token)
             \/ /\ backlog = 0
                /\ backlog' = backlog
                /\ req' = NewDownload(token, pin, FALSE)
    /\ UNCHANGED <<now, trackerVars, configVars, streak, links, served, pureVars, disk, lockVars>>

\* what is left of a request when its handler has returned
Done(r, resp) == [r EXCEPT !.pc = "done", !.resp = resp, !.pin = NoPin,
                    !.info = [kind |-> "none"]]

\* Faulty variant of ShareValidate: the share-link path is put behind the
\* block check of the main gate
ShareValidate_m1 ==
    /\ req.pc = "validate"
    /\ LET b == is_ip_blocked(req.ip, BLOCKED_IPS, FAILED_ATTEMPTS, now)
           r == validate_link(links, req.token, req.pin, now) IN
       /\ BLOCKED_IPS' = b.B
       /\ FAILED_ATTEMPTS' = b.F
       /\ req' = CASE b.ret -> Done(req, "blocked")
                   [] r.kind = "inactive" -> Done(req, "gone")
                   [] r.kind = "requires_pin" -> Done(req, "pin_page")
                   [] r.kind = "pin_invalid" -> Done(req, "pin_retry")
                   [] OTHER -> [req EXCEPT !.pc = "consume", !.info = r]
    /\ links' = validate_link_store(links, req.token, req.pin, now)
    /\ UNCHANGED <<now, configVars, streak, served, backlog, pureVars, disk, lockVars>>

\* do_GET, "Validate share link": validate_link and the three refusals
ShareValidate ==
    /\ req.pc = "validate"
    /\ LET r == validate_link(links, req.token, req.pin, now) IN
       req' = CASE r.kind = "inactive" -> Done(req, "gone")
                [] r.kind = "requires_pin" -> Done(req, "pin_page")
                [] r.kind = "pin_invalid" -> Done(req, "pin_retry")
                [] OTHER -> [req EXCEPT !.pc = "consume", !.info = r]
    /\ links' = validate_link_store(links, req.token, req.pin, now)
    /\ UNCHANGED <<now, trackerVars, configVars, streak, served, backlog, pureVars, disk, lockVars>>

\* do_GET, "Valid link - serve file": if the file exists, increment_download
\* and the file is sent; otherwise 404
ShareServe ==
    /\ req.pc = "consume"
    /\ \E exists \in BOOLEAN :
          IF exists
          THEN /\ links' = increment_download(links, req.token)
               /\ served' = [served EXCEPT ![req.token] = @ + 1]
               /\ req' = Done(req, "file")
          ELSE /\ req' = Done(req, "not_found")
               /\ UNCHANGED <<links, served>>
    /\ UNCHANGED <<now, trackerVars, configVars, streak, backlog, pureVars, disk, lockVars>>

\* do_POST, "/api/share/create", past the gate: generate_share_link with a
\* token of secrets.token_urlsafe(24); should the token be in the table
\* already, the INSERT raises (token TEXT UNIQUE) and the endpoint answers
\* with the error
ApiCreate ==
    /\ ~Busy
    /\ backlog = 0
    /\ \E token \in Tokens, fp \in FilePaths,
          h \in MintExpiryHours, m \in MintMaxDownloads, pin \in MintPins,
          ip \in Creators :
          IF token \in DOMAIN links
          THEN /\ req' = [ShareIdle EXCEPT !.pc = "done", !.kind = "create",
                            !.token = token, !.resp = "error"]
               /\ UNCHANGED <<links, served>>
          ELSE /\ links' = DictSet(links, token,
                                   generate_share_link(fp, h, m, pin, ip, now))
               /\ served' = DictSet(served, token, 0)
               /\ req' = [ShareIdle EXCEPT !.pc = "done", !.kind = "create",
                            !.token = token, !.resp = "created"]
    /\ UNCHANGED <<now, trackerVars, configVars, streak, backlog, pureVars, disk, lockVars>>

\* do_POST, "/api/share/revoke", past the gate: revoke_link
ApiRevoke ==
    /\ ~Busy
    /\ backlog = 0
    /\ \E token \in Tokens :
          LET r == revoke_link(links, token) IN
          /\ links' = r.T
          /\ req' = [ShareIdle EXCEPT !.pc = "done", !.kind = "revoke",
                       !.token = token,
                       !.resp = IF r.ret THEN "success" ELSE "no_success"]
    /\ UNCHANGED <<now, trackerVars, configVars, streak, served, backlog, pureVars, disk, lockVars>>

\* an hour passes
ShareTick ==
    /\ now + HourSeconds <= MaxShareHours * HourSeconds
    /\ now' = now + HourSeconds
    /\ UNCHANGED <<trackerVars, configVars, req, streak, shareVars, pureVars, disk, lockVars>>

InitShare ==
    /\ now = 0
    /\ BLOCKED_IPS = EmptyDict
    /\ FAILED_ATTEMPTS = EmptyDict
    /\ WHITELIST_IPS = {}
    /\ auth_password = PASSWORD
    /\ auth_token = Empty
    /\ req = ShareIdle
    /\ streak = [ip \in IPs |-> 0]
    /\ links = EmptyDict
    /\ served = EmptyDict
    /\ backlog = 0
    /\ call = 0
    /\ ret = 0
    /\ disk = {}
    /\ holder = NoHolder
    /\ thr = NoCalls

NextShare ==
    \/ Send
    \/ ShareAccept
    \/ ShareValidate
    \/ ShareServe
    \/ ApiCreate
    \/ ApiRevoke
    \/ ShareTick

SpecShare == InitShare /\ [][NextShare]_vars

\* C1: for a link with maxDownloads = N > 0, however the public download
\* requests for its token overlap, at most N of them are sent the file and
\* downloadCount never exceeds N; once N are sent the link is revoked
C1_DownloadLimit ==
    \A t \in DOMAIN links :
        links[t].max_downloads > 0
            => /\ served[t] <= links[t].max_downloads
               /\ links[t].download_count <= links[t].max_downloads
               /\ served[t] = links[t].max_downloads => links[t].revoked

\* a one-time link, unexpired, was sent once, and a request for it that
\* arrived while that download was being handled was answered 410
C1_Witness ==
    /\ req.pc = "done" /\ req.kind = "download" /\ req.resp = "gone"
    /\ req.overlap
    /\ req.token \in DOMAIN links
    /\ links[req.token].max_downloads = 1
    /\ served[req.token] = 1
    /\ links[req.token].download_count = 1
    /\ now <= links[req.token].expires_at

(***************************************************************************)
(* validate_link on every row and every pin                                *)
(***************************************************************************)
\* largest download_count of a row handed to validate_link
MaxRowCount == 3

RowTimes == {0, HourSeconds}
CallTimes == {0, HourSeconds, 2 * HourSeconds}
CallPins == {NoPin, "", "1234", "9999"}

\* every row the table can hold for a link to srv/a.txt, also those the
\* handlers never leave behind (limit reached, not yet revoked)
Rows ==
    [file_path : FilePaths, file_name : {"a.txt"}, expires_at : RowTimes,
     max_downloads : MintMaxDownloads, download_count : 0..MaxRowCount,
     pin_hash : {"", Sha256("1234")}, creator_ip : Creators,
     revoked : BOOLEAN]

\* tables with or without a row for tokA; tokB is never minted
Tables == {EmptyDict} \cup {DictSet(EmptyDict, "tokA", row) : row \in Rows}

InitValidate ==
    /\ now = 0
    /\ BLOCKED_IPS = EmptyDict
    /\ FAILED_ATTEMPTS = EmptyDict
    /\ WHITELIST_IPS = {}
    /\ auth_password = Empty
    /\ auth_token = Empty
    /\ req = IdleReq
    /\ streak = [ip \in IPs |-> 0]
    /\ links = EmptyDict
    /\ served = EmptyDict
    /\ backlog = 0
    /\ call \in [T : Tables, token : Tokens, pin : CallPins, t : CallTimes]
    /\ ret = [kind |-> "unset"]
    /\ disk = {}
    /\ holder = NoHolder
    /\ thr = NoCalls

CallValidateLink ==
    /\ ret.kind = "unset"
    /\ ret' = validate_link(call.T, call.token, call.pin, call.t)
    /\ UNCHANGED <<now, trackerVars, configVars, req, streak, shareVars, call, disk, lockVars>>

SpecValidate == InitValidate /\ [][CallValidateLink]_vars

\* the link of the call is inactive: no record, revoked, expired, or at its
\* download limit
Inactive(T, token, t) ==
    \/ token \notin DOMAIN T
    \/ /\ token \in DOMAIN T
       /\ \/ T[token].revoked
          \/ t > T[token].expires_at
          \/ /\ T[token].max_downloads > 0
             /\ T[token].download_count >= T[token].max_downloads

\* C11: validate_link returns None iff no record has the token, or the record
\* is revoked, or now > expires_at, or max_downloads > 0 and
\* download_count >= max_downloads, whatever the pin and the other fields
C11_InactiveFirst ==
    ret.kind # "unset" =>
        (ret.kind = "inactive" <=> Inactive(call.T, call.token, call.t))

\* the right pin was supplied for a link that is neither revoked nor expired
\* but has reached its limit, and the answer was None
C11_Witness ==
    /\ ret.kind = "inactive"
    /\ call.token \in DOMAIN call.T
    /\ ~call.T[call.token].revoked
    /\ call.t <= call.T[call.token].expires_at
    /\ call.T[call.token].download_count = call.T[call.token].max_downloads
    /\ call.T[call.token].pin_hash = Sha256(call.pin)

\* C12: for an active link with a pin hash validate_link returns the link's
\* info only for a pin that hashes to the stored hash; without pin it returns
\* requires_pin with the file name and nothing else, with another pin it
\* returns pin_invalid and nothing else; for an active link without pin hash
\* it returns the info for every pin argument
C12_PinGuardsPath ==
    (ret.kind # "unset" /\ ~Inactive(call.T, call.token, call.t)) =>
        LET row == call.T[call.token] IN
        IF row.pin_hash = ""
        THEN ret.kind = "active" /\ ret.file_path = row.file_path
        ELSE /\ ret.kind = "active" <=> Sha256(call.pin) = row.pin_hash
             /\ ret.kind = "active" => ret.file_path = row.file_path
             /\ call.pin \in {NoPin, ""}
                   <=> ret = [kind |-> "requires_pin", file_name |-> row.file_name]
             /\ (call.pin \notin {NoPin, ""} /\ Sha256(call.pin) # row.pin_hash)
                   <=> ret = [kind |-> "pin_invalid"]

\* a wrong pin for an active protected link was answered pin_invalid
C12_Witness ==
    /\ ret = [kind |-> "pin_invalid"]
    /\ call.pin = "9999"
    /\ ~Inactive(call.T, call.token, call.t)
    /\ call.T[call.token].pin_hash = Sha256("1234")

(***************************************************************************)
(* Properties of the share-link specification                              *)
(***************************************************************************)
\* the step of a download handler that calls validate_link
ValidateStep == req.pc = "validate" /\ req'.pc # "validate"

\* the step of a download handler that calls increment_download
ConsumeStep == req.pc = "consume" /\ req'.pc = "done" /\ req'.resp = "file"

\* the link has reached its download limit
AtLimit(row) == row.max_downloads > 0 /\ row.download_count >= row.max_downloads

\* C13: validate_link changes no record, whatever it returns; a download
\* request answered with the expired page or a pin page leaves the table as
\* it was and no file is sent
C13_ValidateReadOnly ==
    [][ValidateStep
         => /\ links' = links
            /\ served' = served
            /\ req'.resp \in {"gone", "pin_page", "pin_retry"} <=> req'.pc = "done"]_vars

\* a wrong pin for an active protected one-time link was answered with the
\* pin page, and the link still has its download
C13_Witness ==
    /\ req.pc = "done" /\ req.kind = "download" /\ req.resp = "pin_retry"
    /\ req.token \in DOMAIN links
    /\ links[req.token].max_downloads = 1
    /\ links[req.token].download_count = 0
    /\ ~links[req.token].revoked
    /\ served[req.token] = 0

\* C14: increment_download raises download_count by exactly one and, in the
\* same critical section, revokes the link when max_downloads > 0 and the new
\* count has reached it, leaving the other records alone; so no state between two
\* manager operations holds a record at its limit that is not revoked
C14_ConsumeAtomic ==
    /\ [][ConsumeStep
            => /\ req.token \in DOMAIN links
               /\ DOMAIN links' = DOMAIN links
               /\ links'[req.token] =
                     [links[req.token] EXCEPT
                        !.download_count = @ + 1,
                        !.revoked = @ \/ (links[req.token].max_downloads > 0
                                          /\ links[req.token].download_count + 1
                                               >= links[req.token].max_downloads)]
               /\ \A k \in DOMAIN links \ {req.token} : links'[k] = links[k]]_vars
    /\ [](\A k \in DOMAIN links : AtLimit(links[k]) => links[k].revoked)

\* the second download of a link limited to two was sent and revoked the link
C14_Witness ==
    /\ req.pc = "done" /\ req.kind = "download" /\ req.resp = "file"
    /\ links[req.token].max_downloads = 2
    /\ links[req.token].download_count = 2
    /\ links[req.token].revoked
    /\ served[req.token] = 2

(***************************************************************************)
(* revoke_link, called again and again on every table                      *)
(***************************************************************************)
\* number of consecutive calls of revoke_link the model follows
MaxRevokes == 2

\* rows of a second link
OtherRows == {row \in Rows : /\ row.expires_at = HourSeconds
                             /\ row.max_downloads = 1
                             /\ row.download_count = 0
                             /\ row.pin_hash = ""}

\* tables with at most a row for tokA and a row for tokB
RevokeTables ==
    Tables
    \cup {DictSet(EmptyDict, "tokB", o) : o \in OtherRows}
    \cup {DictSet(T, "tokB", o) : T \in Tables \ {EmptyDict}, o \in OtherRows}

\* T0: the table before the first call; T1: the table after the first call;
\* T: the table now; ret: the results of the calls so far
InitRevoke ==
    /\ now = 0
    /\ BLOCKED_IPS = EmptyDict
    /\ FAILED_ATTEMPTS = EmptyDict
    /\ WHITELIST_IPS = {}
    /\ auth_password = Empty
    /\ auth_token = Empty
    /\ req = IdleReq
    /\ streak = [ip \in IPs |-> 0]
    /\ links = EmptyDict
    /\ served = EmptyDict
    /\ backlog = 0
    /\ call \in {[T0 |-> T, T1 |-> T, T |-> T, token |-> k] :
                    T \in RevokeTables, k \in Tokens}
    /\ ret = <<>>
    /\ disk = {}
    /\ holder = NoHolder
    /\ thr = NoCalls

CallRevokeLink ==
    /\ Len(ret) < MaxRevokes
    /\ LET r == revoke_link(call.T, call.token) IN
       /\ call' = [call EXCEPT !.T = r.T,
                               !.T1 = IF Len(ret) = 0 THEN r.T ELSE @]
       /\ ret' = Append(ret, r.ret)
    /\ UNCHANGED <<now, trackerVars, configVars, req, streak, shareVars, disk, lockVars>>

SpecRevoke == InitRevoke /\ [][CallRevokeLink]_vars

\* C15: two calls of revoke_link in a row on an existing link, not revoked
\* before, return true, then false
C15_RevokeTwiceTrueFalse ==
    (Len(ret) >= 2 /\ call.token \in DOMAIN call.T0 /\ ~call.T0[call.token].revoked)
        => (ret[1] = TRUE /\ ret[2] = FALSE)

\* C16: revoke_link returns true iff the table has a record with the token;
\* it sets revoked on that record and changes nothing else; a second call
\* leaves the table of the first; validate_link answers None from the first
\* call on
C16_RevokeIdempotent ==
    /\ \A i \in 1..Len(ret) : ret[i] = (call.token \in DOMAIN call.T0)
    /\ Len(ret) >= 1 =>
          /\ DOMAIN call.T1 = DOMAIN call.T0
          /\ \A k \in DOMAIN call.T0 :
                call.T1[k] = IF k = call.token
                             THEN [call.T0[k] EXCEPT !.revoked = TRUE]
                             ELSE call.T0[k]
          /\ call.T = call.T1
          /\ \A pin \in CallPins, t \in CallTimes :
                validate_link(call.T, call.token, pin, t).kind = "inactive"

\* a live link was revoked twice next to another live link: both calls
\* answered true and the other link is still live
C16_Witness ==
    /\ ret = <<TRUE, TRUE>>
    /\ call.token = "tokA"
    /\ ~call.T0["tokA"].revoked
    /\ "tokB" \in DOMAIN call.T
    /\ ~call.T["tokB"].revoked
    /\ call.T["tokA"].revoked

(***************************************************************************)
(* generate_share_link and the create endpoint on every argument           *)
(***************************************************************************)
MintTables == {EmptyDict} \cup {DictSet(EmptyDict, "tokB", o) : o \in OtherRows}

\* T0: the table before the call; T: the table now; token: the value of
\* secrets.token_urlsafe(24)
InitMint ==
    /\ now = 0
    /\ BLOCKED_IPS = EmptyDict
    /\ FAILED_ATTEMPTS = EmptyDict
    /\ WHITELIST_IPS = {}
    /\ auth_password = Empty
    /\ auth_token = Empty
    /\ req = IdleReq
    /\ streak = [ip \in IPs |-> 0]
    /\ links = EmptyDict
    /\ served = EmptyDict
    /\ backlog = 0
    /\ call \in {[T0 |-> T, T |-> T, token |-> k, file_path |-> fp,
                  expiry_hours |-> h, max_downloads |-> m, pin |-> pin,
                  creator_ip |-> ip, t |-> t] :
                    T \in MintTables, k \in Tokens, fp \in FilePaths,
                    h \in MintExpiryHours, m \in MintMaxDownloads,
                    pin \in MintPins, ip \in Creators, t \in RowTimes}
    /\ ret = [kind |-> "unset"]
    /\ disk = {}
    /\ holder = NoHolder
    /\ thr = NoCalls

\* the INSERT raises sqlite3.IntegrityError when the token is already in the
\* table (token TEXT UNIQUE); the endpoint then answers with the error
CallGenerateShareLink ==
    /\ ret.kind = "unset"
    /\ IF call.token \in DOMAIN call.T
       THEN /\ ret' = [kind |-> "raised"]
            /\ call' = call
       ELSE LET info == generate_share_link_info(call.token, call.file_path,
                            call.expiry_hours, call.max_downloads, call.pin,
                            call.t)
            IN /\ call' = [call EXCEPT !.T =
                             DictSet(call.T, call.token,
                                 generate_share_link(call.file_path,
                                     call.expiry_hours, call.max_downloads,
                                     call.pin, call.creator_ip, call.t))]
               /\ ret' = [kind |-> "returned", info |-> info,
                          response |-> create_response(info, "h")]
    /\ UNCHANGED <<now, trackerVars, configVars, req, streak, shareVars, disk, lockVars>>

SpecMint == InitMint /\ [][CallGenerateShareLink]_vars

\* C17: the dict returned by generate_share_link and the JSON of the create
\* endpoint have the public fields only, none of them the pin; the row stores
\* the SHA-256 digest of a given pin and no field of it is the pin
C17_PinNeverDisclosed ==
    ret.kind = "returned" =>
        LET row == call.T[call.token] IN
        /\ DOMAIN ret.info = {"token", "file_name", "expires_at",
                              "max_downloads", "has_pin"}
        /\ ret.info.token # call.pin
        /\ ret.info.file_name # call.pin
        /\ ret.info.has_pin \in BOOLEAN
        /\ DOMAIN ret.response = {"success", "share_url", "token", "expires_at",
                                  "max_downloads", "has_pin"}
        /\ ret.response.token = ret.info.token
        /\ ret.response.has_pin = ret.info.has_pin
        /\ \A i \in 1..Len(ret.response.share_url) :
              ret.response.share_url[i] # call.pin
        /\ row.file_name # call.pin
        /\ row.creator_ip # call.pin
        /\ IF PinGiven(call.pin)
           THEN row.pin_hash = Sha256(call.pin) /\ row.pin_hash # call.pin
           ELSE row.pin_hash = ""

\* a link was minted with the pin 1234
C17_Witness ==
    /\ ret.kind = "returned"
    /\ call.pin = "1234"
    /\ call.T[call.token].pin_hash = Sha256("1234")
    /\ ret.info.has_pin

\* C18: has_pin of the returned dict is true iff the stored row has a pin
\* hash, i.e. iff validate_link without pin answers requires_pin while the
\* link is active
C18_HasPinMeansProtected ==
    ret.kind = "returned" =>
        /\ ret.info.has_pin <=> call.T[call.token].pin_hash # ""
        /\ ret.info.has_pin <=>
              validate_link(call.T, call.token, NoPin, call.t).kind = "requires_pin"

\* the table after k calls of increment_download(token)
RECURSIVE Consume(_, _, _)
Consume(T, token, k) ==
    IF k = 0 THEN T ELSE Consume(increment_download(T, token), token, k - 1)

\* C19: generate_share_link adds exactly one record, under a token no record
\* had, with download_count 0, not revoked, expiring expiry_hours after now,
\* and leaves the records that were there; validate_link with the pin of the
\* call then returns the link's info with that file path as long as the link
\* has not expired, has not reached its limit and is not revoked
C19_MintThenValidate ==
    ret.kind = "returned" =>
        LET row == call.T[call.token] IN
        /\ call.token \notin DOMAIN call.T0
        /\ DOMAIN call.T = DOMAIN call.T0 \cup {call.token}
        /\ \A k \in DOMAIN call.T0 : call.T[k] = call.T0[k]
        /\ row.file_path = call.file_path
        /\ row.max_downloads = call.max_downloads
        /\ row.download_count = 0
        /\ ~row.revoked
        /\ row.expires_at = call.t + call.expiry_hours * HourSeconds
        /\ \A t2 \in CallTimes, n \in 0..MaxRowCount :
              LET v == validate_link(Consume(call.T, call.token, n),
                                     call.token, call.pin, t2)
              IN /\ v.kind = "active"
                    <=> /\ t2 <= row.expires_at
                        /\ call.max_downloads = 0 \/ n < call.max_downloads
                 /\ v.kind = "active" => v.file_path = call.file_path
        /\ \A t2 \in CallTimes :
              validate_link(revoke_link(call.T, call.token).T,
                            call.token, call.pin, t2).kind = "inactive"

\* a link for two downloads with a pin, valid for one hour, was minted at
\* time one hour next to another link
C19_Witness ==
    /\ ret.kind = "returned"
    /\ call.pin = "1234"
    /\ call.expiry_hours = 1
    /\ call.max_downloads = 2
    /\ call.t = HourSeconds
    /\ "tokB" \in DOMAIN call.T0
    /\ call.T[call.token].expires_at = 2 * HourSeconds

(***************************************************************************)
(* The share endpoints behind the gate: POST /api/share/create and         *)
(* /api/share/revoke go through do_POST's gate, GET /s/<token> goes        *)
(* straight to the manager                                                 *)
(***************************************************************************)
\* a request of this specification has the fields of a gate request and
\* those of a download request
ApiReq(verb, ip, hdr, path, o, token, pin) ==
    [pc |-> IF verb = "GET" THEN "validate" ELSE "gate",
     verb |-> verb, ip |-> ip, hdr |-> hdr, path |-> path,
     origin |-> o[1], referer |-> o[2], host |-> o[3], resp |-> "none",
     logged |-> <<>>, cleared |-> FALSE, prev |-> Attempts(ip),
     kind |-> IF verb = "GET" THEN "download" ELSE "api",
     token |-> token, pin |-> pin, overlap |-> FALSE,
     info |-> [kind |-> "none"]]

ApiIdle == [ApiReq("POST", "10.0.0.1", NoHeader, "/api/share/create",
                   <<Absent, Absent, Absent>>, "tokA", NoPin)
               EXCEPT !.pc = "idle"]

\* downloads of one link this specification follows
ApiMaxCount == 1

\* links of the create endpoint: unlimited or one-time, without pin, valid
\* for an hour; the clock stands still in this specification
ApiMintHours == {1}
ApiMintMaxDownloads == {0, 1}
ApiMintPins == {NoPin}
ApiReqPins == {NoPin}

ApiAccept ==
    /\ req.pc \in {"idle", "done"}
    /\ \E ip \in Creators :
          \/ \E hdr \in GateHeaders, path \in SharePaths, o \in GateOrigins :
                req' = ApiReq("POST", ip, hdr, path, o, "tokA", NoPin)
          \/ \E token \in Tokens, pin \in ApiReqPins :
                /\ token \in DOMAIN links
                      => links[token].download_count < ApiMaxCount
                /\ \E hdr \in GateHeaders :
                      req' = ApiReq("GET", ip, hdr, "/s/",
                                    <<Absent, Absent, Hdr(<<"h">>)>>, token, pin)
    /\ UNCHANGED <<now, trackerVars, configVars, streak, shareVars, pureVars, disk, lockVars>>

\* do_POST, "Handle Share Link API Endpoints", reached past the gate
ApiDispatch ==
    /\ req.pc = "api"
    /\ \/ /\ req.path = "/api/share/create"
          /\ \E token \in Tokens, fp \in FilePaths, h \in ApiMintHours,
                m \in ApiMintMaxDownloads, pin \in ApiMintPins :
                IF token \in DOMAIN links
                THEN /\ req' = [req EXCEPT !.pc = "done", !.resp = "error",
                                  !.token = token]
                     /\ UNCHANGED <<links, served>>
                ELSE /\ links' = DictSet(links, token,
                                    generate_share_link(fp, h, m, pin, req.ip, now))
                     /\ served' = DictSet(served, token, 0)
                     /\ req' = [req EXCEPT !.pc = "done", !.resp = "created",
                                  !.token = token]
       \/ /\ req.path = "/api/share/revoke"
          /\ \E token \in Tokens :
                LET r == revoke_link(links, token) IN
                /\ links' = r.T
                /\ served' = served
                /\ req' = [req EXCEPT !.pc = "done", !.token = token,
                             !.resp = IF r.ret THEN "success" ELSE "no_success"]
    /\ UNCHANGED <<now, trackerVars, configVars, streak, backlog, pureVars, disk, lockVars>>

InitApi ==
    /\ now = 0
    /\ BLOCKED_IPS = EmptyDict
    /\ FAILED_ATTEMPTS = EmptyDict
    /\ WHITELIST_IPS = {}
    /\ \E s \in GateSecrets : auth_password = s[1] /\ auth_token = s[2]
    /\ req = ApiIdle
    /\ streak = [ip \in IPs |-> 0]
    /\ links = EmptyDict
    /\ served = EmptyDict
    /\ backlog = 0
    /\ call = 0
    /\ ret = 0
    /\ disk = {}
    /\ holder = NoHolder
    /\ thr = NoCalls

NextApi ==
    \/ ApiAccept
    \/ GateAuth
    \/ GateRecord
    \/ GateChecks
    \/ ApiDispatch
    \/ ShareValidate
    \/ ShareServe

SpecApi == InitApi /\ [][NextApi]_vars

\* the request carries the configured password or token, or none is configured
Authenticated ==
    \/ ~SecretConfigured
    \/ auth_password # Empty /\ CarriesSecret(req.hdr, auth_password)
    \/ auth_token # Empty /\ CarriesSecret(req.hdr, auth_token)

\* the request has no Origin and no Referer, or a Host that each of them
\* contains
OriginOk ==
    \/ ~Truthy(req.origin) /\ ~Truthy(req.referer)
    \/ /\ Truthy(req.host)
       /\ Truthy(req.origin) => IsSubstring(req.host.value, req.origin.value)
       /\ Truthy(req.referer) => IsSubstring(req.host.value, req.referer.value)

\* C20: the table changes only in a POST to a share endpoint whose outcome is
\* Success and whose origin check passed, or in a public download; a record
\* is created and revoked by the revoke endpoint only in the former; the
\* latter changes only download_count of the record of its token, and
\* revoked of it when the limit is reached
C20_RecordsChangeOnlyAuthenticated ==
    [][links' # links
         => \/ /\ req.verb = "POST"
               /\ req.path \in SharePaths
               /\ Authenticated
               /\ OriginOk
            \/ /\ req.verb = "GET"
               /\ req.path = "/s/"
               /\ DOMAIN links' = DOMAIN links
               /\ \A k \in DOMAIN links :
                     IF k = req.token
                     THEN /\ links'[k] = [links[k] EXCEPT
                                            !.download_count = links'[k].download_count,
                                            !.revoked = links'[k].revoked]
                          /\ links'[k].revoked
                                => links[k].revoked \/ AtLimit(links'[k])
                     ELSE links'[k] = links[k]]_vars

\* after a POST with a wrong password was turned away, a link was created by
\* a POST with the password, and a download without credentials used it up
C20_Witness ==
    /\ SecretConfigured
    /\ req.pc = "done" /\ req.verb = "GET" /\ req.resp = "file"
    /\ ~req.hdr.present
    /\ links[req.token].revoked
    /\ links[req.token].download_count = 1
    /\ FAILED_ATTEMPTS # EmptyDict

\* the response of do_GET to the result of validate_link, "serve" standing
\* for the step to the file
SharePage(r) ==
    CASE r.kind = "inactive" -> "gone"
      [] r.kind = "requires_pin" -> "pin_page"
      [] r.kind = "pin_invalid" -> "pin_retry"
      [] OTHER -> "serve"

\* a request to /s/<token> is being handled
OnSharePath ==
    /\ req.verb = "GET"
    /\ req.path = "/s/"
    /\ req.pc \in {"validate", "consume"}

C22_NeverMintedAlike ==
    (/\ ret.kind # "unset"
     /\ call.token \in DOMAIN call.T
     /\ Inactive(call.T, call.token, call.t))
        => LET never == validate_link(EmptyDict, call.token, call.pin, call.t) IN
           /\ ret = never
           /\ DOMAIN ret = {"kind"}
           /\ SharePage(ret) = "gone"
           /\ SharePage(never) = "gone"

\* the right pin was supplied for a link that is expired and nothing else,
\* and the answer was that of a token without record
C22_Witness ==
    /\ ret = [kind |-> "inactive"]
    /\ call.token \in DOMAIN call.T
    /\ ~call.T[call.token].revoked
    /\ call.t > call.T[call.token].expires_at
    /\ call.T[call.token].download_count = 0
    /\ call.T[call.token].pin_hash = Sha256(call.pin)

(***************************************************************************)
(* src/share_manager.py: list_active_links and cleanup_expired             *)
(***************************************************************************)
\* local time minus UTC of the host, in seconds: datetime.now() is local
\* time, sqlite's datetime('now') and CURRENT_TIMESTAMP are UTC
TzOffsets == {0 - HourSeconds, 0, HourSeconds}

\* rows with the column created_at, which sqlite fills in at INSERT
ListRows ==
    [file_path : FilePaths, file_name : {"a.txt"}, created_at : {0, 1},
     expires_at : RowTimes, max_downloads : {0}, download_count : {0, 1},
     pin_hash : {""}, creator_ip : Creators, revoked : BOOLEAN]

ListTables ==
    UNION {[D -> ListRows] : D \in SUBSET Tokens}

\* the dict list_active_links builds of a row (last_accessed_at left out)
link_entry(T, token) ==
    [token |-> token, file_name |-> T[token].file_name,
     created_at |-> T[token].created_at, expires_at |-> T[token].expires_at,
     max_downloads |-> T[token].max_downloads,
     download_count |-> T[token].download_count]

\* the lists list_active_links can return when sqlite's clock shows utc:
\* WHERE revoked = 0 AND datetime(expires_at) > datetime('now')
\* ORDER BY created_at DESC, rows of one created_at in any order
list_active_links(T, utc) ==
    LET sel == {k \in DOMAIN T : ~T[k].revoked /\ T[k].expires_at > utc}
        n == Cardinality(sel) IN
    {[i \in 1..n |-> link_entry(T, q[i])] :
        q \in {p \in [1..n -> sel] :
                 /\ \A i, j \in 1..n : i # j => p[i] # p[j]
                 /\ \A i, j \in 1..n :
                       i < j => T[p[i]].created_at >= T[p[j]].created_at}}

InitList ==
    /\ now = 0
    /\ BLOCKED_IPS = EmptyDict
    /\ FAILED_ATTEMPTS = EmptyDict
    /\ WHITELIST_IPS = {}
    /\ auth_password = Empty
    /\ auth_token = Empty
    /\ req = IdleReq
    /\ streak = [ip \in IPs |-> 0]
    /\ links = EmptyDict
    /\ served = EmptyDict
    /\ backlog = 0
    /\ call \in [T : ListTables, t : CallTimes, tz : TzOffsets]
    /\ ret = [kind |-> "unset"]
    /\ disk = {}
    /\ holder = NoHolder
    /\ thr = NoCalls

\* list_active_links at local time call.t on a host call.tz ahead of UTC
CallListActiveLinks ==
    /\ ret.kind = "unset"
    /\ \E q \in list_active_links(call.T, call.t - call.tz) :
          ret' = [kind |-> "returned", links |-> q]
    /\ UNCHANGED <<now, trackerVars, configVars, req, streak, shareVars, call, disk, lockVars>>

SpecList == InitList /\ [][CallListActiveLinks]_vars

\* C23: the list holds exactly the records that are not revoked and whose
\* expires_at lies after now, the now of validate_link, newest first
C23_ListedIffNotExpired ==
    ret.kind = "returned" =>
        /\ {ret.links[i].token : i \in DOMAIN ret.links}
              = {k \in DOMAIN call.T :
                    ~call.T[k].revoked /\ call.T[k].expires_at > call.t}
        /\ \A i, j \in DOMAIN ret.links :
              i < j => ret.links[i].created_at >= ret.links[j].created_at

\* days a row is kept after its expiry, and the seconds of a day
RetentionDays == 7
DaySeconds == 86400

CleanupTimes ==
    {0, RetentionDays * DaySeconds, RetentionDays * DaySeconds + HourSeconds,
     RetentionDays * DaySeconds + 2 * HourSeconds}

\* Faulty variant of cleanup_expired: rows are deleted as soon as they are
\* expired
cleanup_expired_m1(T, t) ==
    LET gone == {k \in DOMAIN T : T[k].expires_at < t} IN
    [T |-> [k \in DOMAIN T \ gone |-> T[k]], ret |-> Cardinality(gone)]

\* cleanup_expired at local time t: the table left and the rowcount returned
cleanup_expired(T, t) ==
    LET cutoff == t - RetentionDays * DaySeconds
        gone == {k \in DOMAIN T : T[k].expires_at < cutoff} IN
    [T |-> [k \in DOMAIN T \ gone |-> T[k]], ret |-> Cardinality(gone)]

InitCleanup ==
    /\ now = 0
    /\ BLOCKED_IPS = EmptyDict
    /\ FAILED_ATTEMPTS = EmptyDict
    /\ WHITELIST_IPS = {}
    /\ auth_password = Empty
    /\ auth_token = Empty
    /\ req = IdleReq
    /\ streak = [ip \in IPs |-> 0]
    /\ links = EmptyDict
    /\ served = EmptyDict
    /\ backlog = 0
    /\ \E T \in ListTables, t \in CleanupTimes :
          call = [T0 |-> T, T |-> T, t |-> t]
    /\ ret = [kind |-> "unset"]
    /\ disk = {}
    /\ holder = NoHolder
    /\ thr = NoCalls

CallCleanupExpired ==
    /\ ret.kind = "unset"
    /\ LET r == cleanup_expired(call.T, call.t) IN
       /\ call' = [call EXCEPT !.T = r.T]
       /\ ret' = [kind |-> "returned", count |-> r.ret]
    /\ UNCHANGED <<now, trackerVars, configVars, req, streak, shareVars, disk, lockVars>>

SpecCleanup == InitCleanup /\ [][CallCleanupExpired]_vars

\* the row expired more than RetentionDays days before t
PastRetention(row, t) == row.expires_at + RetentionDays * DaySeconds < t

\* C24: cleanup_expired deletes exactly the rows whose expires_at is more
\* than seven days before now, revoked or not, leaves the others as they
\* were and returns the number deleted; validating, downloading and revoking
\* delete no row, whatever they find
C24_PurgeAfterRetention ==
    /\ ret.kind = "returned" =>
          /\ DOMAIN call.T
                = {k \in DOMAIN call.T0 : ~PastRetention(call.T0[k], call.t)}
          /\ \A k \in DOMAIN call.T : call.T[k] = call.T0[k]
          /\ ret.count = Cardinality(DOMAIN call.T0 \ DOMAIN call.T)
    /\ \A k \in Tokens :
          /\ DOMAIN revoke_link(call.T0, k).T = DOMAIN call.T0
          /\ k \in DOMAIN call.T0
                => DOMAIN increment_download(call.T0, k) = DOMAIN call.T0
          /\ DOMAIN validate_link_store(call.T0, k, NoPin, call.t)
                = DOMAIN call.T0

\* of two rows, the one expired an hour longer than the retention window was
\* deleted, and the one expired for exactly the window was kept
C24_Witness ==
    /\ ret.kind = "returned"
    /\ ret.count = 1
    /\ call.t = RetentionDays * DaySeconds + HourSeconds
    /\ DOMAIN call.T0 = Tokens
    /\ \E k \in DOMAIN call.T :
          /\ call.T[k].expires_at = HourSeconds
          /\ ~call.T[k].revoked
    /\ \E k \in DOMAIN call.T0 \ DOMAIN call.T : call.T0[k].expires_at = 0

(***************************************************************************)
(* src/handler.py: uploads.  A byte string is a sequence of symbols: a     *)
(* byte ("CR", "LF", "-", "b", "x", "y"), or the text of one part header   *)
(* up to its line end.  File names and paths are sequences of characters.  *)
(***************************************************************************)
CRLF == <<"CR", "LF">>

\* bytes.strip(): white space is taken off both ends
RECURSIVE Strip(_)
Strip(s) ==
    IF s = <<>> THEN s
    ELSE IF Head(s) \in {"CR", "LF"} THEN Strip(Tail(s))
    ELSE IF s[Len(s)] \in {"CR", "LF"} THEN Strip(SubSeq(s, 1, Len(s) - 1))
    ELSE s

\* str.strip(chars)
RECURSIVE StripChars(_, _)
StripChars(s, chars) ==
    IF s = <<>> THEN s
    ELSE IF Head(s) \in chars THEN StripChars(Tail(s), chars)
    ELSE IF s[Len(s)] \in chars THEN StripChars(SubSeq(s, 1, Len(s) - 1), chars)
    ELSE s

\* bytes.find(needle) + 1, for hay containing needle
IndexOf(hay, needle) ==
    CHOOSE i \in 1..(Len(hay) - Len(needle) + 1) :
        /\ \A j \in 1..Len(needle) : hay[i + j - 1] = needle[j]
        /\ \A k \in 1..(i - 1) : \E j \in 1..Len(needle) : hay[k + j - 1] # needle[j]

\* str(counter)
DigitChars == <<"0", "1", "2", "3", "4", "5", "6", "7", "8", "9">>

RECURSIVE Str(_)
Str(n) == IF n < 10 THEN <<DigitChars[n + 1]>>
          ELSE Str(n \div 10) \o <<DigitChars[(n % 10) + 1]>>

\* characters of the file names the model sends: c.isalpha(), c.isdigit()
Letters == {"a", "b", "t"}
Digits == {DigitChars[i] : i \in 1..10}

IsSafeChar(c) == c \in Letters \cup Digits \cup {".", "_", "-"}

\* Faulty variant of secure_filename: every character is kept
secure_filename_m1(name) == name

\* get_upload_path.secure_filename
secure_filename(name) == SelectSeq(name, IsSafeChar)

\* os.path.basename (posixpath): what follows the last "/"
basename(p) ==
    LET slashes == {i \in 1..Len(p) : p[i] = "/"} IN
    IF slashes = {} THEN p
    ELSE SubSeq(p, (CHOOSE i \in slashes : \A j \in slashes : j <= i) + 1, Len(p))

\* os.path.join(a, b) (posixpath)
path_join(a, b) ==
    IF b # <<>> /\ Head(b) = "/" THEN b
    ELSE IF a = <<>> \/ a[Len(a)] = "/" THEN a \o b
    ELSE a \o <<"/">> \o b

\* os.path.splitext (genericpath._splitext): the extension begins at the
\* last dot behind the last "/", unless only dots precede it in the name
splitext(p) ==
    LET slashes == {i \in 1..Len(p) : p[i] = "/"}
        dots == {i \in 1..Len(p) : p[i] = "."}
        sep == IF slashes = {} THEN 0
               ELSE CHOOSE i \in slashes : \A j \in slashes : j <= i
        dot == IF dots = {} THEN 0
               ELSE CHOOSE i \in dots : \A j \in dots : j <= i IN
    IF dot > sep /\ \E i \in (sep + 1)..(dot - 1) : p[i] # "."
    THEN <<SubSeq(p, 1, dot - 1), SubSeq(p, dot, Len(p))>>
    ELSE <<p, <<>>>>

\* os.path.exists for a path below the directory dir, of which fs holds the
\* entries; "." and ".." exist in every directory
path_exists(fs, dir, p) ==
    p \in fs \cup {path_join(dir, <<".">>), path_join(dir, <<".", ".">>)}

\* get_upload_path, "Anti-overwrite": the first of base_1.ext, base_2.ext,
\* ... that does not exist
RECURSIVE next_free(_, _, _, _, _)
next_free(fs, dir, base, ext, counter) ==
    LET full_path == base \o <<"_">> \o Str(counter) \o ext IN
    IF path_exists(fs, dir, full_path)
    THEN next_free(fs, dir, base, ext, counter + 1)
    ELSE full_path

NoPath == [some |-> FALSE, path |-> <<>>]

\* Faulty variant of get_upload_path: without the anti-overwrite loop
get_upload_path_m1(filename, dir, is_dir, fs) ==
    LET clean_name == secure_filename(basename(filename)) IN
    IF clean_name = <<>> THEN NoPath
    ELSE IF ~is_dir THEN NoPath
    ELSE [some |-> TRUE, path |-> path_join(dir, clean_name)]

\* get_upload_path(filename) of a request whose path translates to dir;
\* is_dir: os.path.isdir(target_dir)
get_upload_path(filename, dir, is_dir, fs) ==
    LET clean_name == secure_filename(basename(filename)) IN
    IF clean_name = <<>> THEN NoPath
    ELSE IF ~is_dir THEN NoPath
    ELSE LET full_path == path_join(dir, clean_name)
             se == splitext(full_path) IN
         [some |-> TRUE,
          path |-> IF path_exists(fs, dir, full_path)
                   THEN next_free(fs, dir, se[1], se[2], 1)
                   ELSE full_path]

\* file names a client sends, as long as MaxNameLen
MaxNameLen == 3
FileNameChars == {"a", ".", "/", "\\", "?"}
FileNames == UNION {[1..n -> FileNameChars] : n \in 0..MaxNameLen}

\* translate_path(self.path): directories below the served one
TargetDirs == {<<"/", "s">>, <<"/", "s", "/", "d", ".", "d">>}

\* what the directory holds besides "." and ".."
DirEntries(dir) ==
    SUBSET {path_join(dir, <<"a">>), path_join(dir, <<"a", "_", "1">>),
            path_join(dir, <<"a", ".", "a">>)}

InitPath ==
    /\ now = 0
    /\ BLOCKED_IPS = EmptyDict
    /\ FAILED_ATTEMPTS = EmptyDict
    /\ WHITELIST_IPS = {}
    /\ auth_password = Empty
    /\ auth_token = Empty
    /\ req = IdleReq
    /\ streak = [ip \in IPs |-> 0]
    /\ links = EmptyDict
    /\ served = EmptyDict
    /\ backlog = 0
    /\ \E filename \in FileNames, dir \in TargetDirs, is_dir \in BOOLEAN :
          \E fs \in DirEntries(dir) :
             call = [filename |-> filename, dir |-> dir, is_dir |-> is_dir,
                     fs |-> fs]
    /\ ret = [kind |-> "unset"]
    /\ disk = {}
    /\ holder = NoHolder
    /\ thr = NoCalls

CallGetUploadPath ==
    /\ ret.kind = "unset"
    /\ LET r == get_upload_path(call.filename, call.dir, call.is_dir, call.fs) IN
       ret' = [kind |-> "returned", some |-> r.some, path |-> r.path]
    /\ UNCHANGED <<now, trackerVars, configVars, req, streak, shareVars, call, disk, lockVars>>

SpecPath == InitPath /\ [][CallGetUploadPath]_vars

\* the path is dir, "/" and one more component, which is not empty, is
\* neither "." nor ".." and consists of safe characters
DirectChild(dir, path) ==
    /\ Len(path) > Len(dir) + 1
    /\ SubSeq(path, 1, Len(dir) + 1) = dir \o <<"/">>
    /\ LET final == SubSeq(path, Len(dir) + 2, Len(path)) IN
       /\ \A i \in 1..Len(final) : IsSafeChar(final[i])
       /\ final \notin {<<".">>, <<".", ".">>}

\* C29: whatever file name the client sends, get_upload_path returns None or
\* a path that is a direct child of the directory the request path
\* translates to, its last component made of letters, digits, ".", "_", "-"
C29_PathStaysInside ==
    (ret.kind = "returned" /\ ret.some) => DirectChild(call.dir, ret.path)

\* the file name "/.." was given the path of a file named ".._1" in the
\* directory
C29_Witness ==
    /\ ret.kind = "returned"
    /\ ret.some
    /\ call.filename = <<"/", ".", ".">>
    /\ ret.path = call.dir \o <<"/", ".", ".", "_", "1">>

(***************************************************************************)
(* Uploads of the serving thread, one request at a time, into one          *)
(* directory                                                               *)
(***************************************************************************)
\* files the directory can come to hold in this specification
MaxFiles == 3

UploadDir == <<"/", "s">>

\* names of uploaded files; three of them sanitize to "a.t"
UploadNames == {<<"a", ".", "t">>, <<"?", "a", ".", "t">>,
                <<"x", "/", "a", ".", "t">>, <<"a">>, <<"?">>}

UploadIdle == [pc |-> "idle", kind |-> "upload", filename |-> <<>>,
               is_dir |-> TRUE, upload_path |-> <<>>, overlap |-> FALSE,
               resp |-> "none"]

UploadBusy == req.pc \in {"resolve", "open", "write"}

\* a client connects to upload while the server is busy with an upload: its
\* connection waits in the listen queue
UploadSend ==
    /\ UploadBusy
    /\ backlog < MaxBacklog
    /\ backlog' = backlog + 1
    /\ UNCHANGED <<now, trackerVars, configVars, req, streak, links, served, pureVars, disk, lockVars>>

\* TCPServer takes the next connection when the previous handler has
\* returned; overlap is history: the connection was waiting while the
\* previous upload was handled
UploadAccept ==
    /\ ~UploadBusy
    /\ Cardinality(disk) < MaxFiles
    /\ \E filename \in UploadNames, is_dir \in BOOLEAN :
          \/ /\ backlog > 0
             /\ backlog' = backlog - 1
             /\ req' = [UploadIdle EXCEPT !.pc = "resolve",
                          !.filename = filename, !.is_dir = is_dir,
                          !.overlap = TRUE]
          \/ /\ backlog = 0
             /\ backlog' = backlog
             /\ req' = [UploadIdle EXCEPT !.pc = "resolve",
                          !.filename = filename, !.is_dir = is_dir]
    /\ UNCHANGED <<now, trackerVars, configVars, streak, links, served, pureVars, disk, lockVars>>

\* do_POST, "if filename: upload_path = self.get_upload_path(filename)"
UploadResolve ==
    /\ req.pc = "resolve"
    /\ LET r == get_upload_path(req.filename, UploadDir, req.is_dir, disk) IN
       req' = IF r.some
              THEN [req EXCEPT !.pc = "open", !.upload_path = r.path]
              ELSE [req EXCEPT !.pc = "done", !.resp = "303"]
    /\ UNCHANGED <<now, trackerVars, configVars, streak, shareVars, pureVars, disk, lockVars>>

\* do_POST, "with open(upload_path, 'wb') as f": the file exists from now on
UploadOpen ==
    /\ req.pc = "open"
    /\ disk' = disk \cup {req.upload_path}
    /\ req' = [req EXCEPT !.pc = "write"]
    /\ UNCHANGED <<now, trackerVars, configVars, streak, shareVars, pureVars, lockVars>>

\* do_POST: the part is written, the file closed and the response sent
UploadFinish ==
    /\ req.pc = "write"
    /\ req' = [req EXCEPT !.pc = "done", !.resp = "303"]
    /\ UNCHANGED <<now, trackerVars, configVars, streak, shareVars, pureVars, disk, lockVars>>

InitSave ==
    /\ now = 0
    /\ BLOCKED_IPS = EmptyDict
    /\ FAILED_ATTEMPTS = EmptyDict
    /\ WHITELIST_IPS = {}
    /\ auth_password = Empty
    /\ auth_token = Empty
    /\ req = UploadIdle
    /\ streak = [ip \in IPs |-> 0]
    /\ links = EmptyDict
    /\ served = EmptyDict
    /\ backlog = 0
    /\ call = 0
    /\ ret = 0
    /\ disk \in {{}, {path_join(UploadDir, <<"a", "_", "1", ".", "t">>)}}
    /\ holder = NoHolder
    /\ thr = NoCalls

NextSave ==
    \/ UploadSend
    \/ UploadAccept
    \/ UploadResolve
    \/ UploadOpen
    \/ UploadFinish

SpecSave == InitSave /\ [][NextSave]_vars

\* the k-th path of the suffix rule for a sanitized name: name, name_1,
\* name_2, ... with the number before the extension
SuffixedPath(clean_name, k) ==
    LET full_path == path_join(UploadDir, clean_name)
        se == splitext(full_path) IN
    IF k = 0 THEN full_path ELSE se[1] \o <<"_">> \o Str(k) \o se[2]

\* C30: an upload is given the first of name, name_1, name_2, ... that does
\* not exist, and the path it opens for writing does not exist when it opens
\* it, also when its connection was waiting while the upload before it was
\* handled; so uploads of one sanitized name end in distinct files
C30_UploadsNeverShareAPath ==
    [][/\ (req.pc = "resolve" /\ req'.pc = "open")
            => \E k \in 0..MaxFiles :
                  /\ req'.upload_path
                        = SuffixedPath(secure_filename(basename(req.filename)), k)
                  /\ \A j \in 0..(k - 1) :
                        SuffixedPath(secure_filename(basename(req.filename)), j)
                           \in disk
       /\ (req.pc = "open" /\ req'.pc = "write")
            => /\ req.upload_path \notin disk
               /\ disk' = disk \cup {req.upload_path}]_vars

\* an upload whose name sanitizes to a.t, from a connection that waited
\* during the upload before it, found a.t and a_1.t and ended in a_2.t
C30_Witness ==
    /\ req.pc = "done"
    /\ req.overlap
    /\ req.filename = <<"?", "a", ".", "t">>
    /\ req.upload_path = path_join(UploadDir, <<"a", "_", "2", ".", "t">>)
    /\ disk = {path_join(UploadDir, <<"a", ".", "t">>),
               path_join(UploadDir, <<"a", "_", "1", ".", "t">>),
               path_join(UploadDir, <<"a", "_", "2", ".", "t">>)}

(***************************************************************************)
(* do_POST, "Handle Upload": the checks of the request headers and the     *)
(* decoder of the body.  Lengths count symbols.                            *)
(***************************************************************************)
\* s.split(c)[1], for s containing c: what lies between the first c and the
\* next one
SplitSecond(s, c) ==
    LET rest == AfterFirst(s, c) IN
    IF Contains(rest, c) THEN SubSeq(rest, 1, FirstIndex(rest, c) - 1) ELSE rest

\* the boundary parameter of a Content-Type that contains 'boundary='
boundary_of(content_type) ==
    StripChars(StripChars(StripChars(SplitSecond(content_type, "boundary="),
                                     {" "}), {"\""}), {"'"})

\* int(self.headers.get('content-length', 0)), for a header that is absent or
\* numeric
content_length_of(h) == IF h.present THEN h.value ELSE 0

\* Faulty variant of upload_precheck: a Content-Length of zero is let through
upload_precheck_m1(content_type, h) ==
    IF ~Contains(content_type, "multipart/form-data") THEN 400
    ELSE IF ~Contains(content_type, "boundary=") THEN 400
    ELSE IF boundary_of(content_type) = <<>> THEN 400
    ELSE IF h.present /\ ~h.numeric THEN 500
    ELSE 0

\* the checks before the body is touched: the status of the error sent, or 0
\* when the body is to be decoded; a Content-Length that is no number makes
\* int() raise, which the handler answers with 500
upload_precheck(content_type, h) ==
    IF ~Contains(content_type, "multipart/form-data") THEN 400
    ELSE IF ~Contains(content_type, "boundary=") THEN 400
    ELSE IF boundary_of(content_type) = <<>> THEN 400
    ELSE IF h.present /\ ~h.numeric THEN 500
    ELSE IF content_length_of(h) = 0 THEN 400
    ELSE 0

\* boundary_bytes = ('--' + boundary).encode()
boundary_bytes(boundary) == <<"-", "-">> \o boundary

\* the text of a part header up to its line end is one symbol: D is a
\* Content-Disposition without filename, Dfa, Dfb, Dfq and Dfe are one with
\* filename="a.t", "b", "?" and "", T is a Content-Type
HeaderSyms == {"D", "Dfa", "Dfb", "Dfe", "Dfq", "T"}

\* key.lower().strip() of a header line
header_key(sym) == IF sym = "T" THEN "content-type" ELSE "content-disposition"

\* disposition.split('filename=')[1].split(';')[0].strip('"').strip("'"),
\* or None without 'filename='
disposition_filename(sym) ==
    CASE sym = "Dfa" -> [present |-> TRUE, name |-> <<"a", ".", "t">>]
      [] sym = "Dfb" -> [present |-> TRUE, name |-> <<"b">>]
      [] sym = "Dfq" -> [present |-> TRUE, name |-> <<"?">>]
      [] sym = "Dfe" -> [present |-> TRUE, name |-> <<>>]
      [] OTHER -> [present |-> FALSE, name |-> <<>>]

\* safe_readline(): nothing once content_length is reached, else
\* rfile.readline(), a whole line whatever its length, or what is left of the
\* stream
safe_readline(stream, bytes_read, content_length) ==
    IF bytes_read >= content_length
    THEN [line |-> <<>>, bytes_read |-> bytes_read]
    ELSE LET ends == {i \in (bytes_read + 1)..Len(stream) : stream[i] = "LF"}
             last == IF ends = {} THEN Len(stream)
                     ELSE CHOOSE i \in ends : \A j \in ends : i <= j
             line == SubSeq(stream, bytes_read + 1, last) IN
         [line |-> line, bytes_read |-> bytes_read + Len(line)]

\* safe_read(size): rfile.read(min(size, content_length - bytes_read))
safe_read(stream, bytes_read, content_length, size) ==
    IF bytes_read >= content_length
    THEN [chunk |-> <<>>, bytes_read |-> bytes_read]
    ELSE LET rest == content_length - bytes_read
             to_read == IF size < rest THEN size ELSE rest
             upto == IF bytes_read + to_read < Len(stream)
                     THEN bytes_read + to_read ELSE Len(stream)
             chunk == SubSeq(stream, bytes_read + 1, upto) IN
         [chunk |-> chunk, bytes_read |-> bytes_read + Len(chunk)]

\* "Skip to first boundary": bytes_read when a line with the marker, or no
\* line, has been read
RECURSIVE skip_preamble(_, _, _, _)
skip_preamble(stream, bytes_read, content_length, marker) ==
    LET r == safe_readline(stream, bytes_read, content_length) IN
    IF r.line # <<>> /\ ~IsSubstring(marker, r.line)
    THEN skip_preamble(stream, r.bytes_read, content_length, marker)
    ELSE r.bytes_read

\* "Parse Headers": the loop from header_line on, to an empty line or the end
RECURSIVE read_headers(_, _, _, _, _)
read_headers(stream, bytes_read, content_length, header_line, headers) ==
    IF header_line = <<>> \/ header_line = CRLF
    THEN [headers |-> headers, bytes_read |-> bytes_read]
    ELSE LET colon == \E i \in 1..Len(header_line) : header_line[i] \in HeaderSyms
             key == IF Head(header_line) \in HeaderSyms
                    THEN header_key(Head(header_line)) ELSE "other"
             val == IF Head(header_line) \in HeaderSyms
                    THEN Head(header_line) ELSE "other"
             r == safe_readline(stream, bytes_read, content_length) IN
         read_headers(stream, r.bytes_read, content_length, r.line,
                      IF colon THEN DictSet(headers, key, val) ELSE headers)

\* part_data without the line end before the marker
strip_line_end(part_data) ==
    LET n == Len(part_data) IN
    IF n >= 2 /\ SubSeq(part_data, n - 1, n) = CRLF
    THEN SubSeq(part_data, 1, n - 2)
    ELSE IF n >= 1 /\ part_data[n] = "LF" THEN SubSeq(part_data, 1, n - 1)
    ELSE part_data

\* Faulty variant of write_part: as many bytes are kept back as the marker
\* is long, less one
RECURSIVE write_part_m1(_, _, _, _, _, _, _)
write_part_m1(stream, bytes_read, content_length, size, marker, prev_chunk, out) ==
    IF bytes_read >= content_length THEN [out |-> out, bytes_read |-> bytes_read]
    ELSE LET r == safe_read(stream, bytes_read, content_length, size) IN
         IF r.chunk = <<>> THEN [out |-> out, bytes_read |-> r.bytes_read]
         ELSE LET buffer == prev_chunk \o r.chunk IN
              IF IsSubstring(marker, buffer)
              THEN [out |-> out \o strip_line_end(
                                      SubSeq(buffer, 1, IndexOf(buffer, marker) - 1)),
                    bytes_read |-> r.bytes_read]
              ELSE LET margin == Len(marker) - 1 IN
                   IF Len(buffer) > margin
                   THEN write_part_m1(stream, r.bytes_read, content_length, size,
                            marker,
                            SubSeq(buffer, Len(buffer) - margin + 1, Len(buffer)),
                            out \o SubSeq(buffer, 1, Len(buffer) - margin))
                   ELSE write_part_m1(stream, r.bytes_read, content_length, size,
                            marker, buffer, out)

\* the loop that writes a part to the open file, with chunks of size bytes:
\* what the file holds in the end, and bytes_read
RECURSIVE write_part(_, _, _, _, _, _, _)
write_part(stream, bytes_read, content_length, size, marker, prev_chunk, out) ==
    IF bytes_read >= content_length THEN [out |-> out, bytes_read |-> bytes_read]
    ELSE LET r == safe_read(stream, bytes_read, content_length, size) IN
         IF r.chunk = <<>> THEN [out |-> out, bytes_read |-> r.bytes_read]
         ELSE LET buffer == prev_chunk \o r.chunk IN
              IF IsSubstring(marker, buffer)
              THEN [out |-> out \o strip_line_end(
                                      SubSeq(buffer, 1, IndexOf(buffer, marker) - 1)),
                    bytes_read |-> r.bytes_read]
              ELSE LET margin == Len(marker) + 2 IN
                   IF Len(buffer) > margin
                   THEN write_part(stream, r.bytes_read, content_length, size,
                            marker,
                            SubSeq(buffer, Len(buffer) - margin + 1, Len(buffer)),
                            out \o SubSeq(buffer, 1, Len(buffer) - margin))
                   ELSE write_part(stream, r.bytes_read, content_length, size,
                            marker, buffer, out)

\* what an upload leaves: the status sent, the bytes read of the body, the
\* files written and uploaded_files
Outcome(status, bytes_read, saved, uploaded_files) ==
    [kind |-> "returned", status |-> status, bytes_read |-> bytes_read,
     saved |-> saved, uploaded_files |-> uploaded_files]

\* the body of "while bytes_read < content_length": it is left by break after
\* the first part, whatever the part is
decode_parts(stream, bytes_read, content_length, size, marker, dir, fs) ==
    IF bytes_read >= content_length THEN Outcome(303, bytes_read, <<>>, <<>>)
    ELSE LET h == safe_readline(stream, bytes_read, content_length) IN
         IF h.line = <<>> THEN Outcome(303, h.bytes_read, <<>>, <<>>)
         ELSE IF Strip(h.line) = marker \o <<"-", "-">>
         THEN Outcome(303, h.bytes_read, <<>>, <<>>)
         ELSE LET hs == read_headers(stream, h.bytes_read, content_length,
                                     h.line, EmptyDict) IN
              IF DOMAIN hs.headers = {} THEN Outcome(303, hs.bytes_read, <<>>, <<>>)
              ELSE LET filename ==
                          IF "content-disposition" \in DOMAIN hs.headers
                          THEN disposition_filename(hs.headers["content-disposition"])
                          ELSE disposition_filename("")
                       up == get_upload_path(filename.name, dir, TRUE, fs) IN
                   IF ~(filename.present /\ filename.name # <<>>)
                   THEN Outcome(303, hs.bytes_read, <<>>, <<>>)
                   ELSE IF ~up.some THEN Outcome(303, hs.bytes_read, <<>>, <<>>)
                   ELSE LET w == write_part(stream, hs.bytes_read, content_length,
                                            size, marker, <<>>, <<>>) IN
                        Outcome(303, w.bytes_read,
                                <<[path |-> up.path, data |-> w.out]>>,
                                <<basename(up.path)>>)

\* do_POST from "Parse Content-Type" on, for a request with these headers and
\* this body, reading the body in chunks of size bytes
upload(content_type, h, stream, size, dir, fs) ==
    LET status == upload_precheck(content_type, h) IN
    IF status # 0 THEN Outcome(status, 0, <<>>, <<>>)
    ELSE LET marker == boundary_bytes(boundary_of(content_type))
             content_length == content_length_of(h) IN
         decode_parts(stream,
                      skip_preamble(stream, 0, content_length, marker),
                      content_length, size, marker, dir, fs)

\* safe_read(65536) # 64KB
UPLOAD_CHUNK == 65536

\* sizes of a chunk read: the one of the code, which takes all of a short
\* body at once, and small ones, which cut it anywhere
ChunkSizes == {1, 2, 3, 7, UPLOAD_CHUNK}

\* longest content of a part, most parts of a body
MaxDataLen == 3
MaxParts == 2

UploadBoundary == <<"b">>
Marker == boundary_bytes(UploadBoundary)

\* contents of a part: no marker in them
DataBytes == {"x", "-", "b", "CR", "LF"}
PartData ==
    {d \in UNION {[1..n -> DataBytes] : n \in 0..MaxDataLen} :
        ~IsSubstring(Marker, d)}

\* a multipart body of the parts given, each a header symbol and a content:
\* marker, then per part a line end, the header line, an empty line, the
\* content, a line end and the marker, then "--" and a line end
RECURSIVE BodyAfterMarker(_)
BodyAfterMarker(parts) ==
    IF parts = <<>> THEN <<"-", "-">> \o CRLF
    ELSE CRLF \o <<Head(parts).sym>> \o CRLF \o CRLF \o Head(parts).data
              \o CRLF \o Marker \o BodyAfterMarker(Tail(parts))

Body(preamble, parts) == preamble \o Marker \o BodyAfterMarker(parts)

Preambles == {<<>>, <<"x", "CR", "LF">>}

\* Content-Type values: none, another type, multipart without boundary, with
\* an empty one, bare and quoted, and with the boundary b, bare and quoted
GoodContentTypes ==
    {<<"multipart/form-data", ";", " ", "boundary=", "b">>,
     <<"multipart/form-data", ";", " ", "boundary=", "\"", "b", "\"">>}
BadContentTypes ==
    {<<>>, <<"text/plain">>, <<"multipart/form-data">>,
     <<"multipart/form-data", ";", " ", "boundary=">>,
     <<"multipart/form-data", ";", " ", "boundary=", "\"", "\"">>,
     <<"boundary=", "b">>}

\* Content-Length header: absent, a number, or no number
NoLength == [present |-> FALSE, numeric |-> FALSE, value |-> 0]
Length(n) == [present |-> TRUE, numeric |-> TRUE, value |-> n]
JunkLength == [present |-> TRUE, numeric |-> FALSE, value |-> 0]

\* parts of the bodies sent: file parts, fields without file name, parts
\* whose file name is empty or sanitizes to nothing
PartSyms == {"Dfa", "Dfb", "D", "Dfe", "Dfq"}
FewData == {<<"x">>, <<"y", "CR", "LF", "y">>}

UploadCall(content_type, h, preamble, parts, size, entries) ==
    [content_type |-> content_type, h |-> h, preamble |-> preamble,
     parts |-> parts, stream |-> Body(preamble, parts), size |-> size,
     fs |-> entries]

\* a body of one file part a.t with the content d
OneFile(d) == <<[sym |-> "Dfa", data |-> d]>>

\* bodies of up to n parts
PartLists(n) == UNION {[1..k -> [sym : PartSyms, data : FewData]] : k \in 0..n}

InitUpload ==
    /\ now = 0
    /\ BLOCKED_IPS = EmptyDict
    /\ FAILED_ATTEMPTS = EmptyDict
    /\ WHITELIST_IPS = {}
    /\ auth_password = Empty
    /\ auth_token = Empty
    /\ req = IdleReq
    /\ streak = [ip \in IPs |-> 0]
    /\ links = EmptyDict
    /\ served = EmptyDict
    /\ backlog = 0
    /\ \/ \* one file part of every content, with every chunk size
          \E ct \in GoodContentTypes, pre \in Preambles, d \in PartData,
             size \in ChunkSizes :
             call = UploadCall(ct, Length(Len(Body(pre, OneFile(d)))), pre,
                               OneFile(d), size, {})
       \/ \* bodies of up to MaxParts parts
          \E ct \in GoodContentTypes, parts \in PartLists(MaxParts),
             size \in {1, UPLOAD_CHUNK},
             entries \in {{}, {path_join(UploadDir, <<"a", ".", "t">>)}} :
             call = UploadCall(ct, Length(Len(Body(<<>>, parts))), <<>>, parts,
                               size, entries)
       \/ \* a Content-Length from 1 to beyond the length of the body
          \E ct \in GoodContentTypes, pre \in Preambles, d \in FewData,
             size \in ChunkSizes :
             \E n \in 1..(Len(Body(pre, OneFile(d))) + 1) :
                call = UploadCall(ct, Length(n), pre, OneFile(d), size, {})
       \/ \* every combination of headers
          \E ct \in GoodContentTypes \cup BadContentTypes,
             h \in {NoLength, JunkLength, Length(0),
                    Length(Len(Body(<<>>, OneFile(<<"x">>))))} :
             call = UploadCall(ct, h, <<>>, OneFile(<<"x">>), UPLOAD_CHUNK, {})
    /\ ret = [kind |-> "unset"]
    /\ disk = {}
    /\ holder = NoHolder
    /\ thr = NoCalls

CallUpload ==
    /\ ret.kind = "unset"
    /\ ret' = upload(call.content_type, call.h, call.stream, call.size,
                     UploadDir, call.fs)
    /\ UNCHANGED <<now, trackerVars, configVars, req, streak, shareVars, call, disk, lockVars>>

SpecUpload == InitUpload /\ [][CallUpload]_vars

\* the headers let the body through to the decoder with its whole length
HeadersGood ==
    /\ call.content_type \in GoodContentTypes
    /\ call.h = Length(Len(call.stream))

\* the parts of the body that are files: a file name that sanitizes to
\* something
FileParts ==
    SelectSeq(call.parts,
              LAMBDA part : secure_filename(basename(
                               disposition_filename(part.sym).name)) # <<>>)

\* C25: the decoder reads no more bytes of the stream than Content-Length
\* says, line reads and chunk reads together
C25_ReadsAtMostContentLength ==
    (ret.kind = "returned" /\ call.h.present /\ call.h.numeric
        /\ call.h.value > 0)
        => ret.bytes_read <= call.h.value

\* C26: of a well-formed body with one file part the file saved holds the
\* bytes of the part, all of them, once and in order, whatever the size of
\* the chunk reads
C26_SavedEqualsPart ==
    (ret.kind = "returned" /\ HeadersGood /\ Len(call.parts) = 1
        /\ call.parts[1].sym = "Dfa")
        => /\ ret.status = 303
           /\ Len(ret.saved) = 1
           /\ ret.saved[1].data = call.parts[1].data
           /\ ret.uploaded_files = <<basename(ret.saved[1].path)>>

\* a content with a line end and a hyphen in it, read one byte at a time
\* after a preamble, was saved whole
C26_Witness ==
    /\ ret.kind = "returned"
    /\ call.size = 1
    /\ call.preamble # <<>>
    /\ call.parts = <<[sym |-> "Dfa", data |-> <<"-", "CR", "LF">>]>>
    /\ ret.saved = <<[path |-> path_join(UploadDir, <<"a", ".", "t">>),
                      data |-> <<"-", "CR", "LF">>]>>

\* C27: of a well-formed body every file part is saved and named in
\* uploaded_files, in the order of the parts, and the parts that are no files
\* are passed over
C27_EveryFilePartSaved ==
    (ret.kind = "returned" /\ HeadersGood)
        => /\ Len(ret.saved) = Len(FileParts)
           /\ \A i \in 1..Len(ret.saved) : ret.saved[i].data = FileParts[i].data

\* the request is one the checks turn away: no multipart type, no boundary
\* or an empty one, or a Content-Length that is missing or zero
Malformed ==
    \/ ~Contains(call.content_type, "multipart/form-data")
    \/ ~Contains(call.content_type, "boundary=")
    \/ call.content_type \in BadContentTypes
    \/ ~call.h.present
    \/ call.h.numeric /\ call.h.value = 0

\* C28: such a request is answered 400 with no byte of the body read and no
\* file written
C28_MalformedRejectedUnread ==
    (ret.kind = "returned" /\ Malformed)
        => /\ ret.status = 400
           /\ ret.bytes_read = 0
           /\ ret.saved = <<>>
           /\ ret.uploaded_files = <<>>

\* a multipart request with boundary whose Content-Length is 0 was turned
\* away with 400
C28_Witness ==
    /\ ret.kind = "returned"
    /\ ret.status = 400
    /\ call.content_type \in GoodContentTypes
    /\ call.h = Length(0)

(***************************************************************************)
(* A new run of the server: run_server_with_ui clears the tracker; the     *)
(* table share_links lies in the file share_links.db                       *)
(***************************************************************************)
\* Faulty variant of Restart: the block entries outlive the run
Restart_m1 ==
    /\ req' = ApiIdle
    /\ FAILED_ATTEMPTS' = EmptyDict
    /\ UNCHANGED <<now, BLOCKED_IPS, configVars, streak, shareVars, pureVars, disk, lockVars>>

\* the run ends, in whatever step a request is, and the next one begins
Restart ==
    /\ req' = ApiIdle
    /\ BLOCKED_IPS' = EmptyDict
    /\ FAILED_ATTEMPTS' = EmptyDict
    /\ UNCHANGED <<now, configVars, streak, shareVars, pureVars, disk, lockVars>>

NextRestart ==
    \/ NextApi
    \/ Restart

SpecRestart == InitApi /\ [][NextRestart]_vars

\* C31: a new run begins with no block entry and no failure count, so that
\* is_ip_blocked answers False for every ip, and with the table share_links
\* as the run before left it
C31_RestartClearsTrackerOnly ==
    [][(req'.pc = "idle" /\ req.pc # "idle")
          => /\ BLOCKED_IPS' = EmptyDict
             /\ FAILED_ATTEMPTS' = EmptyDict
             /\ \A ip \in IPs :
                   ~is_ip_blocked(ip, BLOCKED_IPS', FAILED_ATTEMPTS', now').ret
             /\ links' = links]_vars

\* a run has just begun: the ip that had failed five times in a row has no
\* entry, and the link used up in the run before is still revoked
C31_Witness ==
    /\ req.pc = "idle"
    /\ BLOCKED_IPS = EmptyDict
    /\ FAILED_ATTEMPTS = EmptyDict
    /\ \E ip \in IPs : streak[ip] >= MAX_FAILED_ATTEMPTS
    /\ "tokA" \in DOMAIN links
    /\ links["tokA"].revoked
    /\ links["tokA"].download_count = 1

(***************************************************************************)
(* what the gate writes to the access log when it rejects                  *)
(***************************************************************************)
\* the request was answered by the auth gate with the blocked page or with
\* the challenge that follows wrong credentials
GateRejected ==
    /\ req.pc = "done"
    /\ MainGate
    /\ req.resp \in {"blocked", "auth_failed"}

\* C32: every request the main gate rejects as Failed or as blocked, GET or
\* POST, has appended an access-log entry with the client ip and the path
\* of the request
C32_RejectionLoggedWithPath ==
    GateRejected
        => \E i \in DOMAIN req.logged :
              /\ req.logged[i].ip = req.ip
              /\ req.logged[i].path = req.path

(***************************************************************************)
(* the calls that take a lock, as the steps they make                      *)
(***************************************************************************)
Acquire(l) == [k |-> "acquire", l |-> l]
Release(l) == [k |-> "release", l |-> l]
\* a read or write of the dicts and lists of state.py
Mem == [k |-> "mem", l |-> "-"]
\* a read or write of a file: access.log, the sqlite database
Io == [k |-> "io", l |-> "-"]

log_access_steps == <<Acquire("STATE_LOCK"), Mem, Release("STATE_LOCK"), Io>>

is_ip_blocked_steps == <<Acquire("STATE_LOCK"), Mem, Release("STATE_LOCK")>>

\* Faulty variant of record_failed_attempt_steps: the block is logged
\* inside the with block
record_failed_attempt_steps_m1(should_log_block) ==
    <<Acquire("STATE_LOCK"), Mem>>
        \o (IF should_log_block THEN log_access_steps ELSE <<>>)
        \o <<Release("STATE_LOCK")>>

record_failed_attempt_steps(should_log_block) ==
    <<Acquire("STATE_LOCK"), Mem, Release("STATE_LOCK")>>
        \o (IF should_log_block THEN log_access_steps ELSE <<>>)

is_ip_whitelisted_steps == <<Acquire("STATE_LOCK"), Mem, Release("STATE_LOCK")>>

\* do_GET and do_POST, auth_status == 1: "Success: Unblock if needed"
reset_on_success_steps == <<Acquire("STATE_LOCK"), Mem, Mem, Release("STATE_LOCK")>>

\* generate_share_link, validate_link, list_active_links, revoke_link,
\* cleanup_expired, get_link_stats: one statement on the database
manager_steps == <<Acquire("manager.lock"), Io, Release("manager.lock")>>

\* increment_download: the UPDATE, the SELECT, and the UPDATE that revokes
increment_download_steps ==
    <<Acquire("manager.lock"), Io, Io, Io, Release("manager.lock")>>

\* what a handler of the serving thread calls
HandlerCalls ==
    {log_access_steps, is_ip_blocked_steps, is_ip_whitelisted_steps,
     reset_on_success_steps, manager_steps, increment_download_steps}
        \cup {record_failed_attempt_steps(b) : b \in BOOLEAN}

\* what _handle_client and LoggingSFTPServer.open call
SftpCalls == {log_access_steps}

InCall(t) == thr[t].i <= Len(thr[t].prog)

Step(t) == thr[t].prog[thr[t].i]

\* a thread that is in no call enters one
LockCall(t) ==
    /\ ~InCall(t)
    /\ \E prog \in IF t = "http" THEN HandlerCalls ELSE SftpCalls :
          thr' = [thr EXCEPT ![t] = [prog |-> prog, i |-> 1]]
    /\ UNCHANGED <<now, trackerVars, configVars, req, streak, shareVars,
                   pureVars, disk, holder>>

\* threading.Lock: acquire waits until the lock is free, whoever holds it
LockStep(t) ==
    /\ InCall(t)
    /\ LET s == Step(t) IN
       /\ s.k = "acquire" => holder[s.l] = Free
       /\ holder' = IF s.k = "acquire" THEN [holder EXCEPT ![s.l] = t]
                    ELSE IF s.k = "release" THEN [holder EXCEPT ![s.l] = Free]
                    ELSE holder
    /\ thr' = [thr EXCEPT ![t].i = @ + 1]
    /\ UNCHANGED <<now, trackerVars, configVars, req, streak, shareVars,
                   pureVars, disk>>

InitLock ==
    /\ now = 0
    /\ BLOCKED_IPS = EmptyDict
    /\ FAILED_ATTEMPTS = EmptyDict
    /\ WHITELIST_IPS = {}
    /\ auth_password = Empty
    /\ auth_token = Empty
    /\ req = IdleReq
    /\ streak = [ip \in IPs |-> 0]
    /\ links = EmptyDict
    /\ served = EmptyDict
    /\ backlog = 0
    /\ disk = {}
    /\ holder = NoHolder
    /\ thr = NoCalls
    /\ call = 0
    /\ ret = 0

NextLock ==
    \/ \E t \in Threads : LockCall(t)
    \/ \E t \in Threads : LockStep(t)

SpecLock == InitLock /\ [][NextLock]_vars

Holds(t, l) == holder[l] = t

\* t is at an acquire of a lock that u holds
WaitsFor(t, u) ==
    /\ InCall(t)
    /\ Step(t).k = "acquire"
    /\ Holds(u, Step(t).l)

\* C33: a thread that holds STATE_LOCK is never at a step that acquires a
\* lock or does I/O (log_access is both), a thread that holds the manager's
\* lock is never at a step that acquires it, and there is no set of threads
\* each of which waits for a lock held by a thread of the set
C33_NoCallUnderLockNoDeadlock ==
    /\ \A t \in Threads :
          (InCall(t) /\ Holds(t, "STATE_LOCK"))
              => Step(t).k \notin {"acquire", "io"}
    /\ \A t \in Threads :
          (InCall(t) /\ Holds(t, "manager.lock"))
              => Step(t) # Acquire("manager.lock")
    /\ \A S \in SUBSET Threads :
          S # {} => \E t \in S : \A u \in S : ~WaitsFor(t, u)

\* the serving thread is inside record_failed_attempt, which will log the
\* block, and holds STATE_LOCK while both SFTP threads wait for it in
\* log_access
C33_Witness ==
    /\ thr["http"].prog = record_failed_attempt_steps(TRUE)
    /\ thr["http"].i = 2
    /\ Holds("http", "STATE_LOCK")
    /\ WaitsFor("sftp1", "http")
    /\ WaitsFor("sftp2", "http")

(***************************************************************************)
(* the upload decoder, one read of the connection at a time                *)
(***************************************************************************)
\* rfile.readline() returns at a line end or at the end of the stream; on a
\* connection the client keeps open (eof false) it waits for one of them
line_ready(stream, bytes_read, content_length, eof) ==
    \/ bytes_read >= content_length
    \/ eof
    \/ \E i \in (bytes_read + 1)..Len(stream) : stream[i] = "LF"

\* rfile.read(to_read) returns with to_read bytes or at the end of the stream
chunk_ready(stream, bytes_read, content_length, size, eof) ==
    \/ bytes_read >= content_length
    \/ eof
    \/ LET rest == content_length - bytes_read
           to_read == IF size < rest THEN size ELSE rest IN
       Len(stream) >= bytes_read + to_read

DecodeIdle ==
    [pc |-> "start", kind |-> "decode", bytes_read |-> 0, header_line |-> <<>>,
     headers |-> EmptyDict, upload_path |-> <<>>, prev_chunk |-> <<>>,
     out |-> <<>>, status |-> 0, uploaded_files |-> <<>>]

DecodeMarker == boundary_bytes(boundary_of(call.content_type))

DecodeLength == content_length_of(call.h)

\* send_response(303) after the loop, or send_error of the checks before it
Respond(status) == [req EXCEPT !.pc = "done", !.status = status]

\* "Parse Content-Type" and "Content-Length"
DecodeStart ==
    /\ req.pc = "start"
    /\ LET status == upload_precheck(call.content_type, call.h) IN
       req' = IF status # 0 THEN Respond(status)
              ELSE [req EXCEPT !.pc = "preamble"]
    /\ UNCHANGED <<now, trackerVars, configVars, streak, shareVars, pureVars,
                   disk, lockVars>>

\* "1. Read preamble (until first boundary)": one safe_readline()
DecodePreamble ==
    /\ req.pc = "preamble"
    /\ line_ready(call.stream, req.bytes_read, DecodeLength, call.eof)
    /\ LET r == safe_readline(call.stream, req.bytes_read, DecodeLength) IN
       req' = IF r.line # <<>> /\ ~IsSubstring(DecodeMarker, r.line)
              THEN [req EXCEPT !.bytes_read = r.bytes_read]
              ELSE [req EXCEPT !.bytes_read = r.bytes_read, !.pc = "part"]
    /\ UNCHANGED <<now, trackerVars, configVars, streak, shareVars, pureVars,
                   disk, lockVars>>

\* "while bytes_read < content_length": the first header line of a part
DecodePart ==
    /\ req.pc = "part"
    /\ line_ready(call.stream, req.bytes_read, DecodeLength, call.eof)
    /\ LET h == safe_readline(call.stream, req.bytes_read, DecodeLength) IN
       req' = IF req.bytes_read >= DecodeLength THEN Respond(303)
              ELSE IF h.line = <<>>
              THEN [Respond(303) EXCEPT !.bytes_read = h.bytes_read]
              ELSE IF Strip(h.line) = DecodeMarker \o <<"-", "-">>
              THEN [Respond(303) EXCEPT !.bytes_read = h.bytes_read]
              ELSE [req EXCEPT !.pc = "headers", !.bytes_read = h.bytes_read,
                                !.header_line = h.line]
    /\ UNCHANGED <<now, trackerVars, configVars, streak, shareVars, pureVars,
                   disk, lockVars>>

\* "while True": a header line is kept and the next one read; after the
\* last one the file name is looked for, get_upload_path called and the
\* file opened
DecodeHeader ==
    /\ req.pc = "headers"
    /\ IF req.header_line = <<>> \/ req.header_line = CRLF
       THEN LET filename ==
                   IF "content-disposition" \in DOMAIN req.headers
                   THEN disposition_filename(req.headers["content-disposition"])
                   ELSE disposition_filename("")
                up == get_upload_path(filename.name, UploadDir, TRUE, disk) IN
            IF \/ DOMAIN req.headers = {}
               \/ ~(filename.present /\ filename.name # <<>>)
               \/ ~up.some
            THEN /\ req' = Respond(303)
                 /\ disk' = disk
            ELSE /\ req' = [req EXCEPT !.pc = "body", !.upload_path = up.path]
                 /\ disk' = disk \cup {up.path}
       ELSE /\ line_ready(call.stream, req.bytes_read, DecodeLength, call.eof)
            /\ LET header_line == req.header_line
                   colon == \E i \in 1..Len(header_line) :
                               header_line[i] \in HeaderSyms
                   key == IF Head(header_line) \in HeaderSyms
                          THEN header_key(Head(header_line)) ELSE "other"
                   val == IF Head(header_line) \in HeaderSyms
                          THEN Head(header_line) ELSE "other"
                   r == safe_readline(call.stream, req.bytes_read, DecodeLength)
               IN req' = [req EXCEPT
                            !.headers = IF colon THEN DictSet(@, key, val) ELSE @,
                            !.header_line = r.line,
                            !.bytes_read = r.bytes_read]
            /\ disk' = disk
    /\ UNCHANGED <<now, trackerVars, configVars, streak, shareVars, pureVars,
                   lockVars>>

\* uploaded_files.append(...), break, and the response
DecodeFinish(bytes_read, out) ==
    [Respond(303) EXCEPT !.bytes_read = bytes_read, !.out = out,
                         !.uploaded_files = <<basename(req.upload_path)>>]

\* "Stream Data": one safe_read(65536) and what is written of it
DecodeBody ==
    /\ req.pc = "body"
    /\ chunk_ready(call.stream, req.bytes_read, DecodeLength, call.size, call.eof)
    /\ LET r == safe_read(call.stream, req.bytes_read, DecodeLength, call.size)
           buffer == req.prev_chunk \o r.chunk
           margin == Len(DecodeMarker) + 2 IN
       req' = IF req.bytes_read >= DecodeLength \/ r.chunk = <<>>
              THEN DecodeFinish(r.bytes_read, req.out)
              ELSE IF IsSubstring(DecodeMarker, buffer)
              THEN DecodeFinish(r.bytes_read,
                      req.out \o strip_line_end(
                          SubSeq(buffer, 1, IndexOf(buffer, DecodeMarker) - 1)))
              ELSE IF Len(buffer) > margin
              THEN [req EXCEPT
                      !.bytes_read = r.bytes_read,
                      !.out = @ \o SubSeq(buffer, 1, Len(buffer) - margin),
                      !.prev_chunk = SubSeq(buffer, Len(buffer) - margin + 1,
                                            Len(buffer))]
              ELSE [req EXCEPT !.bytes_read = r.bytes_read,
                               !.prev_chunk = buffer]
    /\ UNCHANGED <<now, trackerVars, configVars, streak, shareVars, pureVars,
                   disk, lockVars>>

\* bodies that are no multipart body: no line end, no marker, a marker and
\* nothing else, a part that is cut off
BrokenBodies ==
    {<<"x">>, <<"x", "LF">>, <<"x", "CR", "LF", "x">>, Marker,
     Marker \o CRLF \o <<"Dfa">>,
     Marker \o CRLF \o <<"Dfa">> \o CRLF \o CRLF \o <<"x">>}

DecodeCall(content_type, h, stream, size, eof) ==
    [content_type |-> content_type, h |-> h, stream |-> stream, size |-> size,
     eof |-> eof]

\* the connection delivers Content-Length bytes and then stays open or is
\* closed, or it is closed before that
InitDecode ==
    /\ now = 0
    /\ BLOCKED_IPS = EmptyDict
    /\ FAILED_ATTEMPTS = EmptyDict
    /\ WHITELIST_IPS = {}
    /\ auth_password = Empty
    /\ auth_token = Empty
    /\ req = DecodeIdle
    /\ streak = [ip \in IPs |-> 0]
    /\ links = EmptyDict
    /\ served = EmptyDict
    /\ backlog = 0
    /\ disk \in {{}, {path_join(UploadDir, <<"a", ".", "t">>)}}
    /\ holder = NoHolder
    /\ thr = NoCalls
    /\ ret = 0
    /\ \E ct \in {<<"multipart/form-data", ";", " ", "boundary=", "b">>,
                   <<"text/plain">>},
          stream \in BrokenBodies
                     \cup {Body(<<>>, parts) : parts \in PartLists(1)}
                     \cup {Body(<<"x", "CR", "LF">>, OneFile(<<"x">>))},
          size \in {1, UPLOAD_CHUNK} :
          \/ \E eof \in BOOLEAN :
                call = DecodeCall(ct, Length(Len(stream)), stream, size, eof)
          \/ call = DecodeCall(ct, Length(Len(stream) + 1), stream, size, TRUE)

NextDecode ==
    \/ DecodeStart
    \/ DecodePreamble
    \/ DecodePart
    \/ DecodeHeader
    \/ DecodeBody

SpecDecode == InitDecode /\ [][NextDecode]_vars

\* the serving thread runs the handler it has called until it returns
SpecDecodeLive == SpecDecode /\ WF_vars(NextDecode)

\* C34: the decoder terminates on every body of a stream that delivers
\* Content-Length bytes or ends early: its loops exit and a response is sent
C34_DecoderResponds == <>(req.pc = "done")

(***************************************************************************)
(* the two dicts of the tracker, one against the other                     *)
(***************************************************************************)
\* C35: between the critical sections every ip has a block entry iff its
\* failure count is at least MAX_FAILED_ATTEMPTS; record_failed_attempt, the
\* expiry in is_ip_blocked and the success reset keep it so
C35_BlockEntryIffThreshold ==
    \A ip \in IPs :
        ip \in DOMAIN BLOCKED_IPS <=> Attempts(ip) >= MAX_FAILED_ATTEMPTS

\* one ip is blocked, at the threshold; the entry of the other one has
\* expired and been deleted by is_ip_blocked, and the Failed request that
\* found it so has been counted as the first
C35_Witness ==
    /\ req.pc = "done"
    /\ req.resp = "auth_failed"
    /\ req.cleared
    /\ Attempts(req.ip) = 1
    /\ req.ip \notin DOMAIN BLOCKED_IPS
    /\ \E ip \in IPs \ {req.ip} :
          /\ ip \in DOMAIN BLOCKED_IPS
          /\ Attempts(ip) = MAX_FAILED_ATTEMPTS

\* C36: whatever the order in which the wrong-credential requests of an ip
\* are handled, its failure count never exceeds MAX_FAILED_ATTEMPTS, and a
\* block entry that stays keeps its blocked-until time: no request moves it
C36_CountCappedBlockNotMoved ==
    [][\A ip \in IPs :
          /\ DictGet0(FAILED_ATTEMPTS', ip) <= MAX_FAILED_ATTEMPTS
          /\ (ip \in DOMAIN BLOCKED_IPS /\ ip \in DOMAIN BLOCKED_IPS')
                => BLOCKED_IPS'[ip] = BLOCKED_IPS[ip]]_vars

\* half a window after the block was set, a wrong password of the blocked
\* ip, its seventh at least, was answered blocked; the block still ends
\* when it did
C36_Witness ==
    /\ req.pc = "done"
    /\ req.resp = "blocked"
    /\ AuthStatus = 0
    /\ streak[req.ip] > MAX_FAILED_ATTEMPTS
    /\ now = BLOCK_DURATION_SECONDS \div 2
    /\ BLOCKED_IPS[req.ip] = BLOCK_DURATION_SECONDS

(***************************************************************************)
(* do_POST from the gate to its endpoints: the share endpoints, deletion   *)
(* and upload; do_GET "/s/<token>" serves what the links point to          *)
(***************************************************************************)
\* the directory the server is started on, as path components
ServedRoot == <<"srv">>

\* file_path values a client puts in the JSON body of the create endpoint:
\* a file of the directory, a file elsewhere, a path that leaves the
\* directory through ".."
RequestedPaths ==
    {<<"srv", "a.txt">>, <<"etc", "passwd">>, <<"srv", "..", "etc", "passwd">>}

\* os.path.normpath of an absolute path
RECURSIVE normpath(_, _)
normpath(path, acc) ==
    IF path = <<>> THEN acc
    ELSE IF Head(path) = ".."
    THEN normpath(Tail(path),
                  IF acc = <<>> THEN acc ELSE SubSeq(acc, 1, Len(acc) - 1))
    ELSE normpath(Tail(path), Append(acc, Head(path)))

\* the path names something below the directory
InsideRoot(path) ==
    LET n == normpath(path, <<>>) IN
    /\ Len(n) > Len(ServedRoot)
    /\ SubSeq(n, 1, Len(ServedRoot)) = ServedRoot

DeletePath == "/?action=delete&file=a.t"
UploadPath == "/"
PostPaths == SharePaths \cup {DeletePath, UploadPath}
PostTokens == {"tokA"}

\* most files in the directory
PostMaxFiles == 2

\* links0 and disk0 are history: the table and the directory when the
\* request arrived; body_read is what the handler has read of the body
PostReq(verb, ip, hdr, path, o, token) ==
    ApiReq(verb, ip, hdr, path, o, token, NoPin)
        @@ [body_read |-> 0, links0 |-> links, disk0 |-> disk]

PostIdle ==
    [pc |-> "idle", verb |-> "POST", ip |-> "10.0.0.1", hdr |-> NoHeader,
     path |-> UploadPath, origin |-> Absent, referer |-> Absent,
     host |-> Absent, resp |-> "none", logged |-> <<>>, cleared |-> FALSE,
     prev |-> 0, kind |-> "api", token |-> "tokA", pin |-> NoPin,
     overlap |-> FALSE, info |-> [kind |-> "none"], body_read |-> 0,
     links0 |-> EmptyDict, disk0 |-> {}]

PostAccept ==
    /\ req.pc \in {"idle", "done"}
    /\ \/ \E hdr \in GateHeaders, path \in PostPaths, o \in GateOrigins :
             /\ path = UploadPath => Cardinality(disk) < PostMaxFiles
             /\ req' = PostReq("POST", "10.0.0.1", hdr, path, o, "tokA")
       \/ /\ "tokA" \in DOMAIN links
                => links["tokA"].download_count < ApiMaxCount
          /\ req' = PostReq("GET", "10.0.0.1", NoHeader, "/s/",
                            <<Absent, Absent, Hdr(<<"h">>)>>, "tokA")
    /\ UNCHANGED <<now, trackerVars, configVars, streak, shareVars, pureVars,
                   disk, lockVars>>

\* Faulty variant of PostChecks: the whitelist is asked before the origin
\* guard
PostChecks_m1 ==
    /\ req.pc = "checks"
    /\ req.verb = "POST"
    /\ req' = IF ~is_ip_whitelisted(req.ip, WHITELIST_IPS)
              THEN [req EXCEPT !.pc = "done", !.resp = "not_whitelisted"]
              ELSE IF ~check_csrf(req.verb, req.origin, req.referer, req.host)
              THEN [req EXCEPT !.pc = "done", !.resp = "csrf_rejected",
                      !.logged = <<LogEntry(req.ip, "CSRF Reject", "BLOCKED")>>]
              ELSE [req EXCEPT !.pc = "dispatch"]
    /\ UNCHANGED <<now, trackerVars, configVars, streak, shareVars, pureVars,
                   disk, lockVars>>

\* do_POST, "2. Other Security Checks": check_csrf, then is_ip_whitelisted
PostChecks ==
    /\ req.pc = "checks"
    /\ req.verb = "POST"
    /\ req' = IF ~check_csrf(req.verb, req.origin, req.referer, req.host)
              THEN [req EXCEPT !.pc = "done", !.resp = "csrf_rejected",
                      !.logged = <<LogEntry(req.ip, "CSRF Reject", "BLOCKED")>>]
              ELSE IF ~is_ip_whitelisted(req.ip, WHITELIST_IPS)
              THEN [req EXCEPT !.pc = "done", !.resp = "not_whitelisted"]
              ELSE [req EXCEPT !.pc = "dispatch"]
    /\ UNCHANGED <<now, trackerVars, configVars, streak, shareVars, pureVars,
                   disk, lockVars>>

\* do_POST past the checks: "Handle Share Link API Endpoints", "Handle
\* Deletion", "Handle Upload", in this order; the body of an upload is one
\* file part a.t
PostDispatch ==
    /\ req.pc = "dispatch"
    /\ \/ /\ req.path = "/api/share/create"
          /\ \E token \in PostTokens, fp \in RequestedPaths :
                IF token \in DOMAIN links
                THEN /\ req' = [req EXCEPT !.pc = "done", !.resp = "error",
                                  !.body_read = 1]
                     /\ UNCHANGED <<links, served>>
                ELSE /\ links' = DictSet(links, token,
                                    generate_share_link(fp, 1, 0, NoPin, req.ip, now))
                     /\ served' = DictSet(served, token, 0)
                     /\ req' = [req EXCEPT !.pc = "done", !.resp = "created",
                                  !.body_read = 1]
          /\ disk' = disk
       \/ /\ req.path = "/api/share/revoke"
          /\ \E token \in PostTokens :
                LET r == revoke_link(links, token) IN
                /\ links' = r.T
                /\ req' = [req EXCEPT !.pc = "done", !.body_read = 1,
                             !.resp = IF r.ret THEN "success" ELSE "no_success"]
          /\ UNCHANGED <<served, disk>>
       \/ /\ req.path = DeletePath
          /\ IF ~call.allow_remove
             THEN /\ req' = [req EXCEPT !.pc = "done", !.resp = "forbidden"]
                  /\ disk' = disk
             ELSE /\ req' = [req EXCEPT !.pc = "done", !.resp = "redirect"]
                  /\ disk' = disk \ {path_join(UploadDir, <<"a", ".", "t">>)}
          /\ UNCHANGED <<links, served>>
       \/ /\ req.path = UploadPath
          /\ IF ~call.allow_upload
             THEN /\ req' = [req EXCEPT !.pc = "done", !.resp = "forbidden"]
                  /\ disk' = disk
             ELSE /\ req' = [req EXCEPT !.pc = "done", !.resp = "redirect",
                               !.body_read = 1]
                  /\ disk' = disk \cup
                        {get_upload_path(<<"a", ".", "t">>, UploadDir, TRUE,
                                         disk).path}
          /\ UNCHANGED <<links, served>>
    /\ UNCHANGED <<now, trackerVars, configVars, streak, backlog, pureVars,
                   lockVars>>

\* create_server passes allow_upload and allow_remove to the handler and
\* never allow_share_links, which keeps its default
InitPost ==
    /\ now = 0
    /\ BLOCKED_IPS = EmptyDict
    /\ FAILED_ATTEMPTS = EmptyDict
    /\ WHITELIST_IPS \in {{}, {"10.0.0.2"}}
    /\ \E s \in GateSecrets : auth_password = s[1] /\ auth_token = s[2]
    /\ req = PostIdle
    /\ streak = [ip \in IPs |-> 0]
    /\ links = EmptyDict
    /\ served = EmptyDict
    /\ backlog = 0
    /\ disk \in {{}, {path_join(UploadDir, <<"a", ".", "t">>)}}
    /\ holder = NoHolder
    /\ thr = NoCalls
    /\ \E up \in BOOLEAN, rm \in BOOLEAN :
          call = [allow_upload |-> up, allow_remove |-> rm,
                  allow_share_links |-> FALSE]
    /\ ret = 0

NextPost ==
    \/ PostAccept
    \/ GateAuth
    \/ GateRecord
    \/ PostChecks
    \/ PostDispatch
    \/ ShareValidate
    \/ ShareServe

SpecPost == InitPost /\ [][NextPost]_vars

\* C37: the file_path of every share-link record lies inside the served
\* directory, and the public resolver serves files of the directory only
C37_LinksInsideServedRoot ==
    /\ \A token \in DOMAIN links : InsideRoot(links[token].file_path)
    /\ (req.pc = "done" /\ req.verb = "GET" /\ req.resp = "file")
          => InsideRoot(links[req.token].file_path)

\* the POST was answered by the auth gate, the origin guard or the whitelist
PostRejected ==
    /\ req.pc = "done"
    /\ req.verb = "POST"
    /\ req.resp \in {"blocked", "auth_failed", "challenge", "csrf_rejected",
                     "not_whitelisted"}

\* C39: a POST rejected by the auth gate, the origin guard or the whitelist
\* has read nothing of its body and left the directory and the share links
\* as they were; the origin guard answers only authenticated requests, the
\* whitelist only those that passed the origin guard too, and a request is
\* dispatched only past all three
C39_RejectedPostMutatesNothing ==
    /\ PostRejected
          => /\ req.body_read = 0
             /\ disk = req.disk0
             /\ links = req.links0
    /\ (PostRejected /\ req.resp = "csrf_rejected") => AuthStatus = 1
    /\ (PostRejected /\ req.resp = "not_whitelisted")
          => /\ AuthStatus = 1
             /\ check_csrf(req.verb, req.origin, req.referer, req.host)
    /\ req.pc = "dispatch"
          => /\ AuthStatus = 1
             /\ check_csrf(req.verb, req.origin, req.referer, req.host)
             /\ is_ip_whitelisted(req.ip, WHITELIST_IPS)

\* an upload with the right password and a foreign Origin was answered by
\* the origin guard, on a server that allows uploads and holds a file and a
\* link from earlier requests
C39_Witness ==
    /\ PostRejected
    /\ req.resp = "csrf_rejected"
    /\ req.path = UploadPath
    /\ call.allow_upload
    /\ SecretConfigured
    /\ disk # {}
    /\ links # EmptyDict

\* C40: a handler created with allow_share_links = false creates no
\* share-link record, the create endpoint refusing, as the upload is refused
\* and writes nothing with allow_upload = false and the deletion with
\* allow_remove = false
C40_EndpointsOnlyIfEnabled ==
    /\ ~call.allow_share_links => links = EmptyDict
    /\ (req.pc = "done" /\ req.verb = "POST" /\ req.path = "/api/share/create"
          /\ ~call.allow_share_links /\ req.resp \notin {"blocked",
                "auth_failed", "challenge", "csrf_rejected", "not_whitelisted"})
          => req.resp = "forbidden"
    /\ (req.pc = "done" /\ req.path = UploadPath /\ ~call.allow_upload)
          => disk = req.disk0
    /\ (req.pc = "done" /\ req.path = DeletePath /\ ~call.allow_remove)
          => disk = req.disk0

(***************************************************************************)
(* the life of the share links: the calls of the manager in any order,     *)
(* under a clock that never goes back                                      *)
(***************************************************************************)
\* downloads counted per link
LifeMaxCount == 2

\* the clock: the start, a second later, past the hour a link lasts, and
\* past the days an expired row is kept
LifeClock ==
    {0, 1, HourSeconds + 2, HourSeconds + 2 + RetentionDays * DaySeconds}

\* the manager is followed for one token
LifeTokens == {"tokA"}

\* the pin a link is made with, and the pins a visitor sends
LifeMintPins == {NoPin, "1234"}
LifePins == {NoPin, "1234", "9999"}

\* inactive and redrawn are history: the tokens validate_link has answered
\* None for, and those of them generate_share_link has drawn since; again
\* says that the token of this call was in inactive before it
LifeCall(op, token, kind) ==
    [pc |-> "idle", kind |-> "manager", op |-> op, token |-> token,
     ret |-> kind, again |-> FALSE, inactive |-> req.inactive,
     redrawn |-> req.redrawn]

LifeIdle ==
    [pc |-> "idle", kind |-> "manager", op |-> "none", token |-> "tokA",
     ret |-> "none", again |-> FALSE, inactive |-> {}, redrawn |-> {}]

\* generate_share_link with the token secrets.token_urlsafe draws; a token
\* the table holds makes the INSERT raise
LifeMint ==
    /\ \E token \in LifeTokens, m \in {0, 1}, pin \in LifeMintPins :
          IF token \in DOMAIN links
          THEN /\ links' = links
               /\ req' = LifeCall("mint", token, "error")
          ELSE /\ links' = DictSet(links, token,
                              generate_share_link(<<"srv", "a.txt">>, 1, m, pin,
                                                  "10.0.0.1", now))
               /\ req' = [LifeCall("mint", token, "created") EXCEPT
                            !.redrawn = IF token \in req.inactive
                                        THEN @ \cup {token} ELSE @]
    /\ UNCHANGED <<now, trackerVars, configVars, streak, served, backlog,
                   pureVars, disk, lockVars>>

LifeValidate ==
    /\ \E token \in LifeTokens, pin \in LifePins :
          LET r == validate_link(links, token, pin, now) IN
          /\ links' = validate_link_store(links, token, pin, now)
          /\ req' = [LifeCall("validate", token, r.kind) EXCEPT
                       !.again = token \in req.inactive,
                       !.inactive = IF r.kind = "inactive"
                                    THEN @ \cup {token} ELSE @]
    /\ UNCHANGED <<now, trackerVars, configVars, streak, served, backlog,
                   pureVars, disk, lockVars>>

LifeConsume ==
    /\ \E token \in LifeTokens :
          /\ token \in DOMAIN links => links[token].download_count < LifeMaxCount
          /\ links' = increment_download(links, token)
          /\ req' = LifeCall("consume", token, "none")
    /\ UNCHANGED <<now, trackerVars, configVars, streak, served, backlog,
                   pureVars, disk, lockVars>>

LifeRevoke ==
    /\ \E token \in LifeTokens :
          LET r == revoke_link(links, token) IN
          /\ links' = r.T
          /\ req' = LifeCall("revoke", token,
                             IF r.ret THEN "success" ELSE "no_success")
    /\ UNCHANGED <<now, trackerVars, configVars, streak, served, backlog,
                   pureVars, disk, lockVars>>

\* list_active_links, on a host whose clock is UTC; the rows were created
\* when the table was
LifeList ==
    /\ LET T == [k \in DOMAIN links |-> links[k] @@ [created_at |-> 0]] IN
       \E l \in list_active_links(T, now) :
          req' = LifeCall("list", "tokA", IF l = <<>> THEN "empty" ELSE "listed")
    /\ UNCHANGED <<now, trackerVars, configVars, streak, shareVars, pureVars,
                   disk, lockVars>>

LifePurge ==
    /\ LET r == cleanup_expired(links, now) IN
       /\ links' = r.T
       /\ req' = LifeCall("purge", "tokA", IF r.ret = 0 THEN "empty" ELSE "purged")
    /\ UNCHANGED <<now, trackerVars, configVars, streak, served, backlog,
                   pureVars, disk, lockVars>>

LifeTick ==
    /\ \E t \in LifeClock : t > now /\ now' = t
    /\ UNCHANGED <<trackerVars, configVars, req, streak, shareVars, pureVars,
                   disk, lockVars>>

InitLife ==
    /\ now = 0
    /\ BLOCKED_IPS = EmptyDict
    /\ FAILED_ATTEMPTS = EmptyDict
    /\ WHITELIST_IPS = {}
    /\ auth_password = Empty
    /\ auth_token = Empty
    /\ req = LifeIdle
    /\ streak = [ip \in IPs |-> 0]
    /\ links = EmptyDict
    /\ served = EmptyDict
    /\ backlog = 0
    /\ disk = {}
    /\ holder = NoHolder
    /\ thr = NoCalls
    /\ call = 0
    /\ ret = 0

NextLife ==
    \/ LifeMint
    \/ LifeValidate
    \/ LifeConsume
    \/ LifeRevoke
    \/ LifeList
    \/ LifePurge
    \/ LifeTick

SpecLife == InitLife /\ [][NextLife]_vars

\* the counter of a row does not go down and a revoked row stays revoked
RowsOnlyAge ==
    \A token \in DOMAIN links \cap DOMAIN links' :
        /\ links'[token].download_count >= links[token].download_count
        /\ links[token].revoked => links'[token].revoked

\* C38 as stated: under a clock that never goes back, no call makes a
\* download_count smaller or a revoked row unrevoked, and a token for which
\* validate_link has once answered None is never again answered as active,
\* with the pin page or with the wrong-pin page
C38_InactiveForGood ==
    [][/\ RowsOnlyAge
       /\ (req'.op = "validate" /\ req' # req /\ req'.token \in req.inactive)
             => req'.ret = "inactive"]_vars

\* C38, amended: the same, for a token that generate_share_link has not
\* drawn since validate_link answered None for it
C38_InactiveUntilRedrawn ==
    [][/\ RowsOnlyAge
       /\ (req'.op = "validate" /\ req' # req
             /\ req'.token \in req.inactive \ req.redrawn)
             => req'.ret = "inactive"]_vars

\* a one-time link that was downloaded, and so revoked, has been validated
\* twice, the second time after its hour had passed as well
C38_Witness ==
    /\ req.op = "validate"
    /\ req.again
    /\ req.ret = "inactive"
    /\ req.token \in DOMAIN links
    /\ req.token \notin req.redrawn
    /\ links[req.token].revoked
    /\ links[req.token].max_downloads = 1
    /\ links[req.token].download_count = 1
    /\ now > links[req.token].expires_at

====
